---- MODULE Spec2Model ----
(***************************************************************************)
(* State-machine model of the observability runtime                       *)
(* (observability/metrics.py, observability/logger.py,                    *)
(* observability/tracer.py).                                               *)
(*                                                                         *)
(* Each subsystem has its own specification over the shared variables:     *)
(*   SpecCounterInc   Counter.inc(1) from concurrent threads               *)
(*   SpecCounter      Counter.inc(amount) / Counter.reset()                *)
(*   SpecRegistry     MetricsCollector get-or-create, concurrent callers   *)
(*   SpecRegistrySeq  MetricsCollector get-or-create, one call at a time   *)
(*   SpecScope        LogContext set_* / clear / scope                     *)
(*   SpecEmit         ObservabilityLogger._log under LogContext.scope      *)
(*   SpecTracer       Tracer.start_span / Span.end, concurrent threads     *)
(*   SpecStatus       Span.set_status / Span.end / Tracer.span, one thread *)
(*   SpecEnd          Span.end called any number of times, one thread      *)
(*   SpecNest         nested manual and scoped spans, one thread           *)
(*   SpecStart        Tracer.configure / Tracer.start_span, concurrent     *)
(*   SpecAmbient      LogContext and tracer calls of concurrent threads    *)
(*   SpecHeader       SpanContext.to_header / from_header, extract_context *)
(*   SpecStamp        ObservabilityLogger._log while spans start and end   *)
(*   SpecLevel        logger level / global level and _log                 *)
(*   SpecExtra        LogContext extra and per-call extra of _log          *)
(*   SpecFanout       handlers and global handlers of _log                 *)
(*   SpecSinkFailure  handlers whose emit raises                           *)
(*   SpecRing         MemoryHandler.emit / get_entries, concurrent         *)
(*   SpecPercentile   Histogram.observe / get_percentile                   *)
(*   SpecBuckets      Histogram(buckets) / get_bucket_counts               *)
(*   SpecHistogram    Histogram.observe, concurrent / statistics           *)
(*   SpecTimer        Timer.start / stop / time, one thread                *)
(*   SpecTimerShared  Timer.start / stop / time, concurrent threads        *)
(*   SpecMutators     Gauge and Histogram mutators, concurrent             *)
(*   SpecCore         counter, registry and tracer used together, fair     *)
(*   SpecPropagate    inject_context / start_span_from_context             *)
(*   SpecSingleton    MetricsCollector() / Tracer(), concurrent            *)
(*   SpecExport       Histogram.to_dict while threads observe              *)
(*                                                                         *)
(* Optional values (Python None) are sequences of length 0 or 1:           *)
(* <<>> is None, <<v>> is the value v.  Python threads are the elements of *)
(* Threads; a lock is 0 when free and the holder's thread id otherwise.    *)
(***************************************************************************)
EXTENDS Integers, Sequences, FiniteSets, TLC

\* ------------------------------------------------------------------ bounds
\* number of concurrent execution contexts (threads)
NThreads == 2
\* calls each thread makes on the shared Counter
MaxCalls == 4
\* calls made on the shared Counter in all when amounts and resets are mixed
MaxOps == 4
\* get-or-create calls made on the registry in all
MaxRegCalls == 2
\* updates made through returned metric handles in all
MaxUpdates == 1
\* LogContext.scope blocks nested inside one another
MaxDepth == 2
\* log entries kept by the memory sink of a run
MaxEntries == 2
\* spans created in one run of the tracer
MaxSpans == 3
\* calls of Span.end in one run
MaxEnds == 3
\* calls made by the threads of a run that uses LogContext and the tracer
MaxAmbientCalls == 3
\* characters of a trace id, span id or parent span id put into a header
MaxIdLen == 2
\* characters of a header string that arrives
MaxHeaderLen == 4
\* handlers constructed
MaxSinks == 2
\* _log calls made
MaxLogCalls == 2
\* operations begun on the core when its parts are used together
MaxCoreCalls == 2
\* MetricsCollector() and Tracer() constructions begun by one thread
MaxConstructs == 2
\* calls made on the shared Gauge
MaxGaugeCalls == 3
\* calls made on the shared Timer
MaxTimerCalls == 5
\* largest max_entries a MemoryHandler is constructed with
MaxCapacity == 3
\* entries a MemoryHandler accepts
MaxEmits == 5
\* observations a Histogram takes
MaxObservations == 3
\* boundaries a Histogram is constructed with
MaxBuckets == 2

Threads == 1..NThreads
\* the thread of a single-threaded run
MainThread == CHOOSE t \in Threads : \A u \in Threads : t <= u

\* ---------------------------------------------------------------- helpers
\* Python's Optional: None and a present value
NoneVal == <<>>
Some(v) == <<v>>
IsNone(o) == o = <<>>

\* the sum of f over the finite set S
RECURSIVE SumOver(_, _)
SumOver(f, S) ==
    IF S = {} THEN 0
    ELSE LET x == CHOOSE y \in S : TRUE IN f[x] + SumOver(f, S \ {x})

\* threading.Lock: `with lock:` enters only when nobody holds the lock.
\* (LockFree_ignored is the lock left out: every caller enters at once.)
LockFree_ignored(l) == TRUE
LockFree_never(l) == FALSE
LockFree(l) == l = 0

VARIABLES
    \* ---- Counter (metrics.py 27-78): one shared instance
    counter_value,      \* Counter._value
    counter_lock,       \* Counter._lock
    counter_history,    \* Counter._history (the values recorded)
    counter_pc,         \* per thread: position inside inc()/reset()
    counter_amount,     \* per thread: the `amount` argument of the call in flight
    counter_tmp,        \* per thread: the value loaded by `self._value += amount`
    counter_calls,      \* per thread: calls on the counter that have returned
    counter_applied     \* sum of the amounts of the inc calls returned since the
                        \* last returned reset (what the caller expects to read)

VARIABLES
    \* ---- MetricsCollector (metrics.py 292-389): the process-wide registry
    reg_table,          \* _counters/_gauges/_histograms/_timers: kind -> name ->
                        \* index of the registered instance in reg_inst, 0: none
    reg_inst,           \* the metric objects constructed so far, in order
    reg_pc,             \* per thread: position inside counter()/gauge()/...
    reg_args,           \* per thread: arguments of the call in flight
    reg_handle,         \* per thread: the instance its last call returned, 0: none
    reg_updates,        \* kind -> name -> updates made through returned handles
    reg_calls           \* get-or-create calls begun so far

VARIABLES
    \* ---- LogContext (logger.py 75-167): thread-local ambient context
    log_ctx,            \* per thread: _local.correlation_id, .trace_id, .span_id
                        \* (None when never assigned: the getters read a missing
                        \* attribute as None) and .extra (a missing one reads {})
    log_frames,         \* per thread: the active scope() blocks, outermost
                        \* first; each holds the generator's locals
    log_raising,        \* per thread: an exception is propagating out of the
                        \* block just left
    \* ---- ObservabilityLogger with a MemoryHandler (logger.py 272-410)
    log_entries         \* MemoryHandler._entries

counter_vars == <<counter_value, counter_lock, counter_history, counter_pc,
                  counter_amount, counter_tmp, counter_calls, counter_applied>>

\* ================================================================ Counter
\* amounts passed to inc(): the default 1, another positive one, a negative one
Amounts == {1, 2, -1}

Counter_init ==
    /\ counter_value = 0
    /\ counter_lock = 0
    /\ counter_history = <<>>
    /\ counter_pc = [t \in Threads |-> "idle"]
    /\ counter_amount = [t \in Threads |-> 0]
    /\ counter_tmp = [t \in Threads |-> 0]
    /\ counter_calls = [t \in Threads |-> 0]
    /\ counter_applied = 0

\* Counter.get: an unlocked read of _value
Counter_get == counter_value

\* `self._value += amount`: the value stored from the value loaded.
\* (Counter_add_monotonic rejects a negative amount, as "only increases" reads.)
Counter_add_monotonic(v, amount) == IF amount < 0 THEN v ELSE v + amount
Counter_add(v, amount) == v + amount

\* inc(amount): `with self._lock:` entered
Counter_inc_acquire(t, amount) ==
    /\ counter_pc[t] = "idle"
    /\ LockFree(counter_lock)
    /\ counter_lock' = t
    /\ counter_amount' = [counter_amount EXCEPT ![t] = amount]
    /\ counter_pc' = [counter_pc EXCEPT ![t] = "inc_locked"]
    /\ UNCHANGED <<counter_value, counter_history, counter_tmp, counter_calls,
                   counter_applied>>

\* inc: `self._value += amount`, the load
Counter_inc_load(t) ==
    /\ counter_pc[t] = "inc_locked"
    /\ counter_tmp' = [counter_tmp EXCEPT ![t] = counter_value]
    /\ counter_pc' = [counter_pc EXCEPT ![t] = "inc_loaded"]
    /\ UNCHANGED <<counter_value, counter_lock, counter_history, counter_amount,
                   counter_calls, counter_applied>>

\* inc: `self._value += amount`, the store
Counter_inc_store(t) ==
    /\ counter_pc[t] = "inc_loaded"
    /\ counter_value' = Counter_add(counter_tmp[t], counter_amount[t])
    /\ counter_pc' = [counter_pc EXCEPT ![t] = "inc_stored"]
    /\ UNCHANGED <<counter_lock, counter_history, counter_amount, counter_tmp,
                   counter_calls, counter_applied>>

\* inc: `self._history.append(MetricValue(value=self._value, ...))`, then the
\* with-block is left and the call returns
Counter_inc_release(t) ==
    /\ counter_pc[t] = "inc_stored"
    /\ counter_history' = Append(counter_history, counter_value)
    /\ counter_lock' = 0
    /\ counter_calls' = [counter_calls EXCEPT ![t] = @ + 1]
    /\ counter_applied' = counter_applied + counter_amount[t]
    /\ counter_amount' = [counter_amount EXCEPT ![t] = 0]
    /\ counter_tmp' = [counter_tmp EXCEPT ![t] = 0]
    /\ counter_pc' = [counter_pc EXCEPT ![t] = "idle"]
    /\ UNCHANGED <<counter_value>>

\* reset(): `with self._lock:` entered
Counter_reset_acquire(t) ==
    /\ counter_pc[t] = "idle"
    /\ LockFree(counter_lock)
    /\ counter_lock' = t
    /\ counter_pc' = [counter_pc EXCEPT ![t] = "reset_locked"]
    /\ UNCHANGED <<counter_value, counter_history, counter_amount, counter_tmp,
                   counter_calls, counter_applied>>

\* reset: `self._value = 0`
Counter_reset_store(t) ==
    /\ counter_pc[t] = "reset_locked"
    /\ counter_value' = 0
    /\ counter_pc' = [counter_pc EXCEPT ![t] = "reset_stored"]
    /\ UNCHANGED <<counter_lock, counter_history, counter_amount, counter_tmp,
                   counter_calls, counter_applied>>

\* reset: the with-block is left and the call returns
Counter_reset_release(t) ==
    /\ counter_pc[t] = "reset_stored"
    /\ counter_lock' = 0
    /\ counter_calls' = [counter_calls EXCEPT ![t] = @ + 1]
    /\ counter_applied' = 0
    /\ counter_pc' = [counter_pc EXCEPT ![t] = "idle"]
    /\ UNCHANGED <<counter_value, counter_history, counter_amount, counter_tmp>>

\* ======================================================= MetricsCollector
Kinds == {"counter", "gauge", "histogram", "timer"}
Names == {"a", "b"}

\* Histogram.__init__'s default boundaries, in units of 0.005
DefaultBuckets == <<1, 2, 5, 10, 20, 50, 100, 200, 500, 1000, 2000>>

\* (description, labels, buckets) as callers pass them: all defaulted, or all
\* given.  A dict is the set of its (key, value) pairs.
ArgBundles ==
    { [description |-> "", labels |-> NoneVal, buckets |-> NoneVal],
      [description |-> "d", labels |-> Some({<<"env", "ci">>}),
       buckets |-> Some(<<1, 10>>)] }

NoArgs == [kind |-> "counter", name |-> "a", description |-> "",
           labels |-> NoneVal, buckets |-> NoneVal]

\* `labels or {}`, `buckets or [...]`: None and the empty value give the default
OrDefault(opt, empty, default) ==
    IF IsNone(opt) \/ opt[1] = empty THEN default ELSE opt[1]

\* Counter(name, description, labels), Gauge(...), Histogram(name, description,
\* buckets, labels), Timer(name, description, labels): the object constructed.
\* `value` is what the snapshot exports as the metric's measure: _value of a
\* counter or gauge, the observation count of a histogram or timer.
NewMetric(a) ==
    [kind |-> a.kind, name |-> a.name, description |-> a.description,
     labels |-> OrDefault(a.labels, {}, {}),
     buckets |-> CASE a.kind = "histogram" ->
                        OrDefault(a.buckets, <<>>, DefaultBuckets)
                   [] a.kind = "timer" -> DefaultBuckets
                   [] OTHER -> <<>>,
     value |-> 0]

Registry_init ==
    /\ reg_table = [k \in Kinds |-> [n \in Names |-> 0]]
    /\ reg_inst = <<>>
    /\ reg_pc = [t \in Threads |-> "idle"]
    /\ reg_args = [t \in Threads |-> NoArgs]
    /\ reg_handle = [t \in Threads |-> 0]
    /\ reg_updates = [k \in Kinds |-> [n \in Names |-> 0]]
    /\ reg_calls = 0

\* `name not in self._counters` (likewise _gauges, _histograms, _timers).
\* (Registry_absent_always never finds the name: every call constructs.)
Registry_absent_always(k, n) == TRUE
Registry_absent(k, n) == reg_table[k][n] = 0

\* counter(name, description, labels) and its three siblings: the call is
\* entered and `if name not in self._counters` is evaluated
Registry_check(t, k, n, b) ==
    /\ reg_pc[t] = "idle"
    /\ reg_args' = [reg_args EXCEPT ![t] =
            [kind |-> k, name |-> n, description |-> b.description,
             labels |-> b.labels, buckets |-> b.buckets]]
    /\ reg_pc' = [reg_pc EXCEPT ![t] =
            IF Registry_absent(k, n) THEN "create" ELSE "return"]
    /\ reg_calls' = reg_calls + 1
    /\ UNCHANGED <<reg_table, reg_inst, reg_handle, reg_updates>>

\* `self._counters[name] = Counter(name, description, labels)`
Registry_create(t) ==
    /\ reg_pc[t] = "create"
    /\ reg_inst' = Append(reg_inst, NewMetric(reg_args[t]))
    /\ reg_table' = [reg_table EXCEPT
            ![reg_args[t].kind][reg_args[t].name] = Len(reg_inst) + 1]
    /\ reg_pc' = [reg_pc EXCEPT ![t] = "return"]
    /\ UNCHANGED <<reg_args, reg_handle, reg_updates, reg_calls>>

\* `return self._counters[name]`
Registry_return(t) ==
    /\ reg_pc[t] = "return"
    /\ reg_handle' = [reg_handle EXCEPT
            ![t] = reg_table[reg_args[t].kind][reg_args[t].name]]
    /\ reg_args' = [reg_args EXCEPT ![t] = NoArgs]
    /\ reg_pc' = [reg_pc EXCEPT ![t] = "idle"]
    /\ UNCHANGED <<reg_table, reg_inst, reg_updates, reg_calls>>

\* an update through the handle a thread holds: Counter.inc(1), Gauge.inc(1),
\* Histogram.observe(v), or Timer.start()/stop() (one observation)
Metric_update(t) ==
    /\ reg_pc[t] = "idle"
    /\ reg_handle[t] # 0
    /\ LET i == reg_handle[t] IN
          /\ reg_inst' = [reg_inst EXCEPT ![i].value = @ + 1]
          /\ reg_updates' = [reg_updates EXCEPT
                  ![reg_inst[i].kind][reg_inst[i].name] = @ + 1]
    /\ UNCHANGED <<reg_table, reg_pc, reg_args, reg_handle, reg_calls>>

\* collect_all(): per kind, {name: metric.to_dict()} over the registered names
Registry_collect_all(k) ==
    [n \in {m \in Names : reg_table[k][m] # 0} |-> reg_inst[reg_table[k][n]]]

reg_vars == <<reg_table, reg_inst, reg_pc, reg_args, reg_handle, reg_updates,
              reg_calls>>

\* ============================================================= LogContext
\* a dict is a function from its keys; {**a, **b} and dict.update
EmptyDict == [k \in {} |-> 0]
DictMerge(a, b) ==
    [k \in DOMAIN a \cup DOMAIN b |-> IF k \in DOMAIN b THEN b[k] ELSE a[k]]

\* Python truthiness of an Optional[str]: None and "" are false
Truthy(o) == ~IsNone(o) /\ o[1] # ""

\* ids callers pass: set_*_id takes any str, scope() any str or None
CorrelationIds == {"", "outer", "inner"}
TraceIds == {"t"}
SpanIds == {"s"}
ExtraKeys == {"k"}
ExtraVals == {1, 2}
ExtraDicts == UNION {[D -> ExtraVals] : D \in SUBSET ExtraKeys}
Opt(S) == {NoneVal} \cup {Some(v) : v \in S}

LogContext_init ==
    /\ log_ctx = [t \in Threads |->
          [correlation_id |-> NoneVal, trace_id |-> NoneVal,
           span_id |-> NoneVal, extra |-> EmptyDict]]
    /\ log_frames = [t \in Threads |-> <<>>]
    /\ log_raising = [t \in Threads |-> FALSE]
    /\ log_entries = <<>>

\* get_correlation_id / get_trace_id / get_span_id / get_extra
\* (LogContext_get_correlation_id_pasted reads the attribute of the getter it
\* was copied from.)
LogContext_get_correlation_id_pasted(t) == log_ctx[t].trace_id
LogContext_get_correlation_id(t) == log_ctx[t].correlation_id
LogContext_get_trace_id(t) == log_ctx[t].trace_id
LogContext_get_span_id(t) == log_ctx[t].span_id
LogContext_get_extra(t) == log_ctx[t].extra

\* a thread runs its next statement only when no exception is propagating
LogContext_running(t) == ~log_raising[t]

\* the statements of a scope() block being entered are done (no override is
\* still to be applied)
LogContext_entered(t) ==
    IF log_frames[t] = <<>> THEN TRUE
    ELSE ~log_frames[t][Len(log_frames[t])].entering

\* set_correlation_id(correlation_id)
LogContext_set_correlation_id(t, v) ==
    /\ LogContext_running(t) /\ LogContext_entered(t)
    /\ log_ctx' = [log_ctx EXCEPT ![t].correlation_id = Some(v)]
    /\ UNCHANGED <<log_frames, log_raising, log_entries>>

\* set_trace_id(trace_id)
LogContext_set_trace_id(t, v) ==
    /\ LogContext_running(t) /\ LogContext_entered(t)
    /\ log_ctx' = [log_ctx EXCEPT ![t].trace_id = Some(v)]
    /\ UNCHANGED <<log_frames, log_raising, log_entries>>

\* set_span_id(span_id)
LogContext_set_span_id(t, v) ==
    /\ LogContext_running(t) /\ LogContext_entered(t)
    /\ log_ctx' = [log_ctx EXCEPT ![t].span_id = Some(v)]
    /\ UNCHANGED <<log_frames, log_raising, log_entries>>

\* set_extra(key, value)
LogContext_set_extra(t, k, v) ==
    /\ LogContext_running(t) /\ LogContext_entered(t)
    /\ log_ctx' = [log_ctx EXCEPT
            ![t].extra = DictMerge(@, [x \in {k} |-> v])]
    /\ UNCHANGED <<log_frames, log_raising, log_entries>>

\* clear()
LogContext_clear(t) ==
    /\ LogContext_running(t) /\ LogContext_entered(t)
    /\ log_ctx' = [log_ctx EXCEPT ![t] =
            [correlation_id |-> NoneVal, trace_id |-> NoneVal,
             span_id |-> NoneVal, extra |-> EmptyDict]]
    /\ UNCHANGED <<log_frames, log_raising, log_entries>>

\* scope(correlation_id, trace_id, span_id, **extra), lines 135-138: the
\* current values are captured in the generator's locals
LogContext_scope_capture(t, cid, tid, sid, extra) ==
    /\ LogContext_running(t) /\ LogContext_entered(t)
    /\ log_frames' = [log_frames EXCEPT ![t] = Append(@,
            [entering |-> TRUE,
             correlation_id |-> cid, trace_id |-> tid, span_id |-> sid,
             extra |-> extra,
             old_correlation |-> LogContext_get_correlation_id(t),
             old_trace |-> LogContext_get_trace_id(t),
             old_span |-> LogContext_get_span_id(t),
             old_extra |-> LogContext_get_extra(t)])]
    /\ UNCHANGED <<log_ctx, log_raising, log_entries>>

\* `if correlation_id: cls.set_correlation_id(correlation_id)` and its like:
\* the slot after an override argument
LogContext_override(current, arg) == IF Truthy(arg) THEN arg ELSE current

\* scope(), lines 140-150: the overrides are applied and control is yielded
\* to the block.  The arguments are not read again.
LogContext_scope_apply(t) ==
    /\ LogContext_running(t) /\ ~LogContext_entered(t)
    /\ LET f == log_frames[t][Len(log_frames[t])] IN
          /\ log_ctx' = [log_ctx EXCEPT ![t] =
                [correlation_id |->
                     LogContext_override(@.correlation_id, f.correlation_id),
                 trace_id |-> LogContext_override(@.trace_id, f.trace_id),
                 span_id |-> LogContext_override(@.span_id, f.span_id),
                 extra |-> DictMerge(@.extra, f.extra)]]
          /\ log_frames' = [log_frames EXCEPT ![t][Len(log_frames[t])] =
                [f EXCEPT !.entering = FALSE,
                          !.correlation_id = NoneVal, !.trace_id = NoneVal,
                          !.span_id = NoneVal, !.extra = EmptyDict]]
    /\ UNCHANGED <<log_raising, log_entries>>

\* `if old_correlation: cls.set_correlation_id(old_correlation)
\*  else: cls._local.correlation_id = None` and its like: the slot restored
\* (LogContext_restore_kept leaves the slot alone when nothing was saved.)
LogContext_restore_kept(current, old) == IF Truthy(old) THEN old ELSE current
LogContext_restore(current, old) == IF Truthy(old) THEN old ELSE NoneVal

\* scope(), lines 151-167: the block is left, normally (raised = FALSE) or by
\* an exception raised in it or propagating through it (raised = TRUE), and
\* the finally clause restores
LogContext_scope_exit(t, raised) ==
    /\ log_frames[t] # <<>>
    /\ LogContext_entered(t)
    /\ raised \/ LogContext_running(t)
    /\ LET f == log_frames[t][Len(log_frames[t])] IN
          log_ctx' = [log_ctx EXCEPT ![t] =
              [correlation_id |->
                   LogContext_restore(@.correlation_id, f.old_correlation),
               trace_id |-> LogContext_restore(@.trace_id, f.old_trace),
               span_id |-> LogContext_restore(@.span_id, f.old_span),
               extra |-> f.old_extra]]
    /\ log_frames' = [log_frames EXCEPT ![t] = SubSeq(@, 1, Len(@) - 1)]
    /\ log_raising' = [log_raising EXCEPT ![t] = raised]
    /\ UNCHANGED log_entries

\* the caller's own `except` catches the exception that left a scope block
LogContext_caught(t) ==
    /\ log_raising[t]
    /\ log_raising' = [log_raising EXCEPT ![t] = FALSE]
    /\ UNCHANGED <<log_ctx, log_frames, log_entries>>

\* =================================================== ObservabilityLogger
\* LogLevel
DEBUG == 10
INFO == 20

\* ObservabilityLogger._log(level, message, **extra) of logger `name`, with an
\* unset logger level, the default global level and a MemoryHandler attached:
\* the entry is built from the ambient context and appended to the sink
Logger_log(t, name, level, message, extra) ==
    /\ LogContext_running(t) /\ LogContext_entered(t)
    /\ level >= DEBUG
    /\ log_entries' = Append(log_entries,
            [level |-> level, message |-> message, logger_name |-> name,
             correlation_id |-> LogContext_get_correlation_id(t),
             trace_id |-> LogContext_get_trace_id(t),
             span_id |-> LogContext_get_span_id(t),
             extra |-> DictMerge(LogContext_get_extra(t), extra)])
    /\ UNCHANGED <<log_ctx, log_frames, log_raising>>

log_vars == <<log_ctx, log_frames, log_raising, log_entries>>

\* ================================================================= Tracer
VARIABLES
    tr_service_name,  \* Tracer.service_name
    tr_spans,         \* every Span object created so far, in creation order;
                      \* a span is referred to by its position in this list
    tr_calls,         \* per span, the start_span call that created it:
                      \* caller, `parent` argument, stack top, resolved
                      \* parent, the caller's stack and the configured
                      \* service name at the call
    tr_traces,        \* Tracer._traces: trace id -> list of spans
    tr_completed,     \* Tracer._completed_spans
    tr_lock,          \* Tracer._lock of the instance
    tr_next_id,       \* number of ids _generate_id has handed out
    tr_stack,         \* TracerContext._local.span_stack of each thread
    tr_pc,            \* position of each thread inside start_span / end
    tr_frame,         \* locals of the call a thread has in flight
    tr_scopes,        \* spans of the `with tracer.span(...)` blocks a thread
                      \* is inside, innermost last
    tr_raising        \* exception propagating in a thread, "none" if none

tr_vars == <<tr_service_name, tr_spans, tr_calls, tr_traces, tr_completed,
             tr_lock, tr_next_id, tr_stack, tr_pc, tr_frame, tr_scopes,
             tr_raising>>

\* SpanStatus
SpanStatus_UNSET == "unset"
SpanStatus_OK == "ok"
SpanStatus_ERROR == "error"

SpanNames == {"op"}
\* service names: the one set by __init__ and one given to configure
ServiceNames == {"unknown", "svc"}
\* what leaves a `with` block: nothing, an Exception, or a BaseException that
\* is not an Exception (KeyboardInterrupt, SystemExit, GeneratorExit)
Faults == {"none", "Exception", "BaseException"}
\* readings of time.time()
Clock == {7}
\* end_time arguments of Span.end
EndTimes == {0, 3}

NoFrame == [span |-> 0, absent |-> FALSE, scoped |-> FALSE]

Tracer_init ==
    /\ tr_service_name = "unknown"
    /\ tr_spans = <<>>
    /\ tr_calls = <<>>
    /\ tr_traces = <<>>
    /\ tr_completed = <<>>
    /\ tr_lock = 0
    /\ tr_next_id = 0
    /\ tr_stack = [t \in Threads |-> <<>>]
    /\ tr_pc = [t \in Threads |-> "idle"]
    /\ tr_frame = [t \in Threads |-> NoFrame]
    /\ tr_scopes = [t \in Threads |-> <<>>]
    /\ tr_raising = [t \in Threads |-> "none"]

\* _generate_id: the id handed out when n ids have been handed out before;
\* uuid4().hex[:16] is taken never to repeat
Tracer_generate_id(n) == n + 1

\* TracerContext.push_span (TracerContext_push_span_under puts the span
\* below the spans already on the stack)
TracerContext_push_span_under(stack, span) == <<span>> \o stack
TracerContext_push_span(stack, span) == Append(stack, span)

\* TracerContext.get_current_span (TracerContext_get_current_span_shared
\* reads one stack for all threads, a class attribute in place of
\* threading.local)
TracerContext_get_current_span_shared(t) ==
    IF tr_stack[MainThread] # <<>>
    THEN Some(tr_stack[MainThread][Len(tr_stack[MainThread])]) ELSE NoneVal
TracerContext_get_current_span(t) ==
    IF tr_stack[t] # <<>> THEN Some(tr_stack[t][Len(tr_stack[t])]) ELSE NoneVal

\* start_span, "Determine parent" (Tracer_resolve_parent_ambient_first looks
\* at the stack before it looks at the argument)
Tracer_resolve_parent_ambient_first(explicit, ambient) ==
    IF IsNone(ambient) THEN explicit ELSE ambient
Tracer_resolve_parent(explicit, ambient) ==
    IF IsNone(explicit) THEN ambient ELSE explicit

\* start_span, "Generate context" (Tracer_new_context_detached always draws a
\* new trace id)
Tracer_new_context_detached(parent) ==
    [trace_id |-> Tracer_generate_id(tr_next_id),
     span_id |-> Tracer_generate_id(tr_next_id + 1),
     parent_span_id |-> IF IsNone(parent) THEN NoneVal
                        ELSE Some(tr_spans[parent[1]].context.span_id)]
Tracer_new_context(parent) ==
    IF ~IsNone(parent)
    THEN [trace_id |-> tr_spans[parent[1]].context.trace_id,
          span_id |-> Tracer_generate_id(tr_next_id),
          parent_span_id |-> Some(tr_spans[parent[1]].context.span_id)]
    ELSE [trace_id |-> Tracer_generate_id(tr_next_id),
          span_id |-> Tracer_generate_id(tr_next_id + 1),
          parent_span_id |-> NoneVal]

\* ids drawn by the "Generate context" step
Tracer_ids_drawn(parent) == IF IsNone(parent) THEN 2 ELSE 1

\* a thread that is not unwinding an exception
Tracer_running(t) == tr_raising[t] = "none"

\* spans whose start_span call has returned
Tracer_handed_out ==
    {i \in DOMAIN tr_spans :
        \A t \in Threads :
            tr_pc[t] \in {"start_lock", "start_register", "start_push"}
                => tr_frame[t].span # i}

\* spans a thread got from its own start_span calls
Tracer_own(t) == {i \in Tracer_handed_out : tr_calls[i].thread = t}

\* configure (the metadata, which only collect_traces reports, is left out)
Tracer_configure(t, service_name) ==
    /\ tr_pc[t] = "idle"
    /\ Tracer_running(t)
    /\ tr_service_name' = service_name
    /\ UNCHANGED <<tr_spans, tr_calls, tr_traces, tr_completed, tr_lock,
                   tr_next_id, tr_stack, tr_pc, tr_frame, tr_scopes,
                   tr_raising>>

\* start_span up to `with self._lock`: resolve the parent, build the context
\* and the Span, stamp service.name.  `scoped` tells that the call comes from
\* Tracer.span.
Tracer_start_span_begin(t, name, explicit, scoped) ==
    /\ tr_pc[t] = "idle"
    /\ Tracer_running(t)
    /\ LET ambient == TracerContext_get_current_span(t)
           parent == Tracer_resolve_parent(explicit, ambient)
           span == [name |-> name,
                    context |-> Tracer_new_context(parent),
                    end_time |-> NoneVal,
                    status |-> SpanStatus_UNSET,
                    status_message |-> NoneVal,
                    attributes |-> [service_name |-> Some(tr_service_name),
                                    error_type |-> NoneVal,
                                    error_message |-> NoneVal]]
       IN /\ tr_spans' = Append(tr_spans, span)
          /\ tr_calls' = Append(tr_calls, [thread |-> t, explicit |-> explicit,
                                           ambient |-> ambient,
                                           parent |-> parent,
                                           stack |-> tr_stack[t],
                                           service_name |-> tr_service_name])
          /\ tr_next_id' = tr_next_id + Tracer_ids_drawn(parent)
          /\ tr_frame' = [tr_frame EXCEPT ![t] =
                 [span |-> Len(tr_spans) + 1, absent |-> FALSE,
                  scoped |-> scoped]]
    /\ tr_pc' = [tr_pc EXCEPT ![t] = "start_lock"]
    /\ UNCHANGED <<tr_service_name, tr_traces, tr_completed, tr_lock,
                   tr_stack, tr_scopes, tr_raising>>

\* start_span: `with self._lock:` and `if context.trace_id not in self._traces`
Tracer_start_span_acquire(t) ==
    /\ tr_pc[t] = "start_lock"
    /\ LockFree(tr_lock)
    /\ tr_lock' = t
    /\ tr_frame' = [tr_frame EXCEPT ![t].absent =
           tr_spans[tr_frame[t].span].context.trace_id \notin DOMAIN tr_traces]
    /\ tr_pc' = [tr_pc EXCEPT ![t] = "start_register"]
    /\ UNCHANGED <<tr_service_name, tr_spans, tr_calls, tr_traces,
                   tr_completed, tr_next_id, tr_stack, tr_scopes, tr_raising>>

\* start_span: the list the span is appended to, a new one if the trace id
\* was absent (Tracer_bucket_fresh makes a new list every time)
Tracer_bucket_fresh(absent, trace_id) == <<>>
Tracer_bucket(absent, trace_id) ==
    IF absent THEN <<>> ELSE tr_traces[trace_id]

\* start_span: create the bucket if it was absent, append the span, leave
\* the lock
Tracer_start_span_register(t) ==
    /\ tr_pc[t] = "start_register"
    /\ \/ tr_frame[t].absent
       \/ tr_spans[tr_frame[t].span].context.trace_id \in DOMAIN tr_traces
    /\ LET s == tr_frame[t].span
           tid == tr_spans[s].context.trace_id
           bucket == Tracer_bucket(tr_frame[t].absent, tid)
       IN tr_traces' = [k \in DOMAIN tr_traces \cup {tid} |->
                           IF k = tid THEN Append(bucket, s) ELSE tr_traces[k]]
    /\ tr_lock' = 0
    /\ tr_pc' = [tr_pc EXCEPT ![t] = "start_push"]
    /\ UNCHANGED <<tr_service_name, tr_spans, tr_calls, tr_completed,
                   tr_next_id, tr_stack, tr_frame, tr_scopes, tr_raising>>

\* start_span: `self._traces[context.trace_id].append(span)` when the table
\* read here no longer has the bucket found by the test before: KeyError
\* leaves the `with` block and the call
Tracer_start_span_register_missing(t) ==
    /\ tr_pc[t] = "start_register"
    /\ ~tr_frame[t].absent
    /\ tr_spans[tr_frame[t].span].context.trace_id \notin DOMAIN tr_traces
    /\ tr_lock' = 0
    /\ tr_raising' = [tr_raising EXCEPT ![t] = "KeyError"]
    /\ tr_frame' = [tr_frame EXCEPT ![t] = NoFrame]
    /\ tr_pc' = [tr_pc EXCEPT ![t] = "idle"]
    /\ UNCHANGED <<tr_service_name, tr_spans, tr_calls, tr_traces,
                   tr_completed, tr_next_id, tr_stack, tr_scopes>>

\* start_span: TracerContext.push_span, return the span (into the `with`
\* block when the call comes from Tracer.span)
Tracer_start_span_return(t) ==
    /\ tr_pc[t] = "start_push"
    /\ tr_stack' = [tr_stack EXCEPT ![t] =
           TracerContext_push_span(@, tr_frame[t].span)]
    /\ tr_scopes' = [tr_scopes EXCEPT ![t] =
           IF tr_frame[t].scoped THEN Append(@, tr_frame[t].span) ELSE @]
    /\ tr_frame' = [tr_frame EXCEPT ![t] = NoFrame]
    /\ tr_pc' = [tr_pc EXCEPT ![t] = "idle"]
    /\ UNCHANGED <<tr_service_name, tr_spans, tr_calls, tr_traces,
                   tr_completed, tr_lock, tr_next_id, tr_raising>>

\* Span.set_status
Span_set_status(t, s, status, message) ==
    /\ tr_pc[t] = "idle"
    /\ Tracer_running(t)
    /\ tr_spans' = [tr_spans EXCEPT ![s].status = status,
                                    ![s].status_message = message]
    /\ UNCHANGED <<tr_service_name, tr_calls, tr_traces, tr_completed, tr_lock,
                   tr_next_id, tr_stack, tr_pc, tr_frame, tr_scopes,
                   tr_raising>>

\* `end_time or time.time()`: None and 0 both give the clock reading
Span_end_time(end_time, now) ==
    IF ~IsNone(end_time) /\ end_time[1] # 0 THEN end_time ELSE Some(now)

\* Span.is_recording: `self.end_time is None`
Span_is_recording(span) == IsNone(span.end_time)

\* Span.to_dict: the keys "end_time" and "duration_ms" are exported under
\* `if self.end_time:`, which a stored 0 does not pass
Span_to_dict_has_end(span) ==
    ~IsNone(span.end_time) /\ span.end_time[1] # 0

\* TracerContext.pop_span (TracerContext_pop_span_oldest takes the span from
\* the other end of the stack)
TracerContext_pop_span_oldest(stack) ==
    IF stack # <<>> THEN Tail(stack) ELSE stack
TracerContext_pop_span(stack) ==
    IF stack # <<>> THEN SubSeq(stack, 1, Len(stack) - 1) ELSE stack

\* Span.end up to `with self._lock` in _on_span_end: set end_time, pop the
\* calling thread's stack
Span_end_begin(t, s, end_time) ==
    /\ tr_pc[t] = "idle"
    /\ Tracer_running(t)
    /\ \E now \in Clock :
          tr_spans' = [tr_spans EXCEPT ![s].end_time =
                          Span_end_time(end_time, now)]
    /\ tr_stack' = [tr_stack EXCEPT ![t] = TracerContext_pop_span(@)]
    /\ tr_frame' = [tr_frame EXCEPT ![t] = [NoFrame EXCEPT !.span = s]]
    /\ tr_pc' = [tr_pc EXCEPT ![t] = "end_lock"]
    /\ UNCHANGED <<tr_service_name, tr_calls, tr_traces, tr_completed, tr_lock,
                   tr_next_id, tr_scopes, tr_raising>>

\* _on_span_end: `with self._lock: self._completed_spans.append(span)`
Span_end_complete(t) ==
    /\ tr_pc[t] = "end_lock"
    /\ LockFree(tr_lock)
    /\ tr_completed' = Append(tr_completed, tr_frame[t].span)
    /\ tr_frame' = [tr_frame EXCEPT ![t] = NoFrame]
    /\ tr_pc' = [tr_pc EXCEPT ![t] = "idle"]
    /\ UNCHANGED <<tr_service_name, tr_spans, tr_calls, tr_traces, tr_lock,
                   tr_next_id, tr_stack, tr_scopes, tr_raising>>

\* collect_traces: the "summary" of the snapshot
Tracer_collect_traces ==
    [total_traces |-> Cardinality(DOMAIN tr_traces),
     total_spans |->
         SumOver([k \in DOMAIN tr_traces |-> Len(tr_traces[k])],
                 DOMAIN tr_traces),
     completed_spans |-> Len(tr_completed)]

\* Tracer.span, leaving the innermost `with` block with `fault`: the `except
\* Exception` clause, the `finally` clause and span.end() up to the lock.  A
\* fault that is already propagating is the one that leaves the block; it keeps
\* propagating after the block (`raise`).
Tracer_span_exit(t, fault) ==
    /\ tr_pc[t] = "idle"
    /\ tr_scopes[t] # <<>>
    /\ ~Tracer_running(t) => fault = tr_raising[t]
    /\ LET s == tr_scopes[t][Len(tr_scopes[t])]
           old == tr_spans[s]
           caught == IF fault = "Exception"
                     THEN [old EXCEPT !.status = SpanStatus_ERROR,
                                      !.status_message = Some("fault"),
                                      !.attributes.error_type = Some(fault),
                                      !.attributes.error_message = Some("fault")]
                     ELSE old
           final == IF caught.status = SpanStatus_UNSET
                    THEN [caught EXCEPT !.status = SpanStatus_OK,
                                        !.status_message = NoneVal]
                    ELSE caught
       IN /\ \E now \in Clock :
                tr_spans' = [tr_spans EXCEPT ![s] =
                    [final EXCEPT !.end_time = Span_end_time(NoneVal, now)]]
          /\ tr_frame' = [tr_frame EXCEPT ![t] = [NoFrame EXCEPT !.span = s]]
    /\ tr_stack' = [tr_stack EXCEPT ![t] = TracerContext_pop_span(@)]
    /\ tr_scopes' = [tr_scopes EXCEPT ![t] = SubSeq(@, 1, Len(@) - 1)]
    /\ tr_raising' = [tr_raising EXCEPT ![t] = fault]
    /\ tr_pc' = [tr_pc EXCEPT ![t] = "end_lock"]
    /\ UNCHANGED <<tr_service_name, tr_calls, tr_traces, tr_completed, tr_lock,
                   tr_next_id>>

\* the caller's own `except` catches the fault that left a span block
Tracer_caught(t) ==
    /\ tr_pc[t] = "idle"
    /\ ~Tracer_running(t)
    /\ tr_raising' = [tr_raising EXCEPT ![t] = "none"]
    /\ UNCHANGED <<tr_service_name, tr_spans, tr_calls, tr_traces,
                   tr_completed, tr_lock, tr_next_id, tr_stack, tr_pc,
                   tr_frame, tr_scopes>>

\* ===================================================== propagation header
\* Strings are sequences of characters here, so that the header can be put
\* together and split as the code does it.
VARIABLES
    hdr_context,      \* the SpanContext to serialize, None if the header
                      \* comes from elsewhere
    hdr_header,       \* the header string, None until there is one
    hdr_parsed,       \* outcome of SpanContext.from_header, None until parsed
    hdr_extracted     \* outcome of Tracer.extract_context, None until called

hdr_vars == <<hdr_context, hdr_header, hdr_parsed, hdr_extracted>>

HeaderChars == {"a", "b", ":"}

RECURSIVE StringsUpTo(_)
StringsUpTo(n) ==
    IF n = 0 THEN {<<>>}
    ELSE LET shorter == StringsUpTo(n - 1)
         IN shorter \cup {Append(s, c) : s \in shorter, c \in HeaderChars}

\* SpanContext objects a caller can build: any strings for the three ids
HeaderContexts ==
    [trace_id : StringsUpTo(MaxIdLen), span_id : StringsUpTo(MaxIdLen),
     parent_span_id : Opt(StringsUpTo(MaxIdLen))]

\* header strings that can arrive
Headers == StringsUpTo(MaxHeaderLen)

Header_init ==
    /\ hdr_context = NoneVal
    /\ hdr_header = NoneVal
    /\ hdr_parsed = NoneVal
    /\ hdr_extracted = NoneVal

\* `x or ''` for an Optional[str]
StrOrEmpty(o) == IF IsNone(o) THEN <<>> ELSE o[1]

\* SpanContext.to_header
SpanContext_to_header(context) ==
    context.trace_id \o <<":">> \o context.span_id \o <<":">>
        \o StrOrEmpty(context.parent_span_id)

\* str.split(":")
RECURSIVE Split(_)
Split(s) ==
    IF \A n \in DOMAIN s : s[n] # ":" THEN <<s>>
    ELSE LET n == CHOOSE m \in DOMAIN s :
                      s[m] = ":" /\ \A l \in 1..(m - 1) : s[l] # ":"
         IN <<SubSeq(s, 1, n - 1)>> \o Split(SubSeq(s, n + 1, Len(s)))

\* from_header: `parts[2] if len(parts) > 2 and parts[2] else None`
\* (SpanContext_parent_kept leaves out the test of parts[2])
SpanContext_parent_kept(parts) ==
    IF Len(parts) > 2 THEN Some(parts[3]) ELSE NoneVal
SpanContext_parent(parts) ==
    IF Len(parts) > 2 /\ parts[3] # <<>> THEN Some(parts[3]) ELSE NoneVal

\* outcomes of a call: an exception, or a returned value (None or a context)
Raised == [error |-> TRUE, context |-> NoneVal]
Returned(value) == [error |-> FALSE, context |-> value]

\* SpanContext.from_header: parts[1] raises IndexError when the split gives
\* one part only
SpanContext_from_header(header) ==
    LET parts == Split(header)
    IN IF Len(parts) < 2 THEN Raised
       ELSE Returned(Some([trace_id |-> parts[1], span_id |-> parts[2],
                           parent_span_id |-> SpanContext_parent(parts)]))

\* Tracer.extract_context with the header found under X-Trace-Context:
\* `if header:` skips None and the empty string
Tracer_extract_context(header) ==
    IF ~IsNone(header) /\ header[1] # <<>>
    THEN SpanContext_from_header(header[1]) ELSE Returned(NoneVal)

\* a caller builds a SpanContext
Header_build(context) ==
    /\ IsNone(hdr_context)
    /\ IsNone(hdr_header)
    /\ hdr_context' = Some(context)
    /\ UNCHANGED <<hdr_header, hdr_parsed, hdr_extracted>>

\* a header string arrives from elsewhere
Header_arrives(header) ==
    /\ IsNone(hdr_context)
    /\ IsNone(hdr_header)
    /\ hdr_header' = Some(header)
    /\ UNCHANGED <<hdr_context, hdr_parsed, hdr_extracted>>

\* the context is serialized
Header_to_header ==
    /\ ~IsNone(hdr_context)
    /\ IsNone(hdr_header)
    /\ hdr_header' = Some(SpanContext_to_header(hdr_context[1]))
    /\ UNCHANGED <<hdr_context, hdr_parsed, hdr_extracted>>

\* the header is parsed with from_header
Header_from_header ==
    /\ ~IsNone(hdr_header)
    /\ IsNone(hdr_parsed)
    /\ hdr_parsed' = Some(SpanContext_from_header(hdr_header[1]))
    /\ UNCHANGED <<hdr_context, hdr_header, hdr_extracted>>

\* the header is handed to extract_context
Header_extract_context ==
    /\ ~IsNone(hdr_header)
    /\ IsNone(hdr_extracted)
    /\ hdr_extracted' = Some(Tracer_extract_context(hdr_header))
    /\ UNCHANGED <<hdr_context, hdr_header, hdr_parsed>>

\* ================================================= propagation by the tracer
\* tracer.py 341-379: inject_context, extract_context and
\* start_span_from_context.  Ids are numbered in the tracer's tables above;
\* in a header they are the hexadecimal strings uuid4().hex gives.
VARIABLES
    prop_inject,      \* None until inject_context was called, then the
                      \* caller and the span that was its current span
    prop_span         \* the span start_span_from_context made, None before

prop_vars == <<prop_inject, prop_span>>

Propagation_init ==
    /\ prop_inject = NoneVal
    /\ prop_span = NoneVal

HexDigits == <<"0", "1", "2", "3", "4", "5", "6", "7", "8", "9", "a", "b",
               "c", "d", "e", "f">>

\* the string of id n
RECURSIVE Tracer_id_hex(_)
Tracer_id_hex(n) ==
    IF n < 16 THEN <<HexDigits[n + 1]>>
    ELSE Tracer_id_hex(n \div 16) \o <<HexDigits[(n % 16) + 1]>>

\* the id a string is, 0 for a string that is no id drawn so far
Tracer_id_of(s) ==
    IF \E n \in 1..tr_next_id : Tracer_id_hex(n) = s
    THEN CHOOSE n \in 1..tr_next_id : Tracer_id_hex(n) = s
    ELSE 0

\* a span's context as the SpanContext of strings it is
Tracer_get_current_context(t) ==
    LET span == TracerContext_get_current_span(t)
    IN IF IsNone(span) THEN NoneVal
       ELSE LET context == tr_spans[span[1]].context
            IN Some([trace_id |-> Tracer_id_hex(context.trace_id),
                     span_id |-> Tracer_id_hex(context.span_id),
                     parent_span_id |->
                         IF IsNone(context.parent_span_id) THEN NoneVal
                         ELSE Some(Tracer_id_hex(context.parent_span_id[1]))])

\* inject_context(headers) on an empty dict: `if context:
\* headers["X-Trace-Context"] = context.to_header()`
Tracer_inject_context(t) ==
    /\ tr_pc[t] = "idle"
    /\ Tracer_running(t)
    /\ IsNone(prop_inject)
    /\ IsNone(hdr_header)
    /\ LET context == Tracer_get_current_context(t)
       IN /\ prop_inject' = Some([thread |-> t,
                                  active |-> TracerContext_get_current_span(t)])
          /\ hdr_context' = context
          /\ hdr_header' = IF IsNone(context) THEN NoneVal
                           ELSE Some(SpanContext_to_header(context[1]))
    /\ UNCHANGED <<hdr_parsed, hdr_extracted, prop_span, tr_vars>>

\* extract_context(headers) on the dict inject_context was given
Tracer_extract_injected(t) ==
    /\ tr_pc[t] = "idle"
    /\ Tracer_running(t)
    /\ ~IsNone(prop_inject)
    /\ IsNone(hdr_extracted)
    /\ hdr_extracted' = Some(Tracer_extract_context(hdr_header))
    /\ UNCHANGED <<hdr_context, hdr_header, hdr_parsed, prop_vars, tr_vars>>

\* start_span_from_context: the context of the new span
\* (Tracer_child_context_own_trace draws a new trace id as well)
Tracer_child_context_own_trace(context) ==
    [trace_id |-> Tracer_generate_id(tr_next_id + 1),
     span_id |-> Tracer_generate_id(tr_next_id),
     parent_span_id |-> Some(Tracer_id_of(context.span_id))]
Tracer_child_context(context) ==
    [trace_id |-> Tracer_id_of(context.trace_id),
     span_id |-> Tracer_generate_id(tr_next_id),
     parent_span_id |-> Some(Tracer_id_of(context.span_id))]

\* start_span_from_context up to `with self._lock`; the rest of the call is
\* that of start_span
Tracer_start_span_from_context_begin(t, name, context) ==
    /\ tr_pc[t] = "idle"
    /\ Tracer_running(t)
    /\ IsNone(prop_span)
    /\ LET span == [name |-> name,
                    context |-> Tracer_child_context(context),
                    end_time |-> NoneVal,
                    status |-> SpanStatus_UNSET,
                    status_message |-> NoneVal,
                    attributes |-> [service_name |-> Some(tr_service_name),
                                    error_type |-> NoneVal,
                                    error_message |-> NoneVal]]
       IN /\ tr_spans' = Append(tr_spans, span)
          /\ tr_calls' = Append(tr_calls,
                [thread |-> t, explicit |-> NoneVal,
                 ambient |-> TracerContext_get_current_span(t),
                 parent |-> NoneVal, stack |-> tr_stack[t],
                 service_name |-> tr_service_name])
          /\ tr_next_id' = tr_next_id + 1
          /\ tr_frame' = [tr_frame EXCEPT ![t] =
                 [span |-> Len(tr_spans) + 1, absent |-> FALSE,
                  scoped |-> FALSE]]
          /\ prop_span' = Some(Len(tr_spans) + 1)
    /\ tr_pc' = [tr_pc EXCEPT ![t] = "start_lock"]
    /\ UNCHANGED <<tr_service_name, tr_traces, tr_completed, tr_lock,
                   tr_stack, tr_scopes, tr_raising, prop_inject, hdr_vars>>

\* ============================================== ObservabilityLogger sinks
VARIABLES
    lg_level,            \* ObservabilityLogger.level of the logger, None: unset
    lg_global_level,     \* ObservabilityLogger._global_level
    lg_handlers,         \* the logger's _handlers: sinks in attachment order
    lg_global_handlers,  \* ObservabilityLogger._global_handlers
    lg_sinks,            \* the handlers constructed so far; each has its
                         \* level, what its emit does (fault) and the entries
                         \* it has written
    lg_console,          \* entries handed to a default ConsoleHandler
    lg_stderr,           \* "Error in log handler" lines written to sys.stderr:
                         \* the sink and the entry of each
    lg_calls,            \* the number of _log calls made so far
    lg_last              \* the last _log call, None before the first: its
                         \* arguments, the levels and the ambient extra at
                         \* the call, the entry built (None if none), the
                         \* sinks emit was called on, in order (0: the
                         \* default console sink), and the exception that
                         \* left the call

lg_vars == <<lg_level, lg_global_level, lg_handlers, lg_global_handlers,
             lg_sinks, lg_console, lg_stderr, lg_calls, lg_last>>

WARN == 30
LogLevels == {DEBUG, INFO, WARN}

\* what a handler's emit does with an entry it accepts: write it, raise an
\* Exception, or raise a BaseException that is not an Exception
SinkFaults == {"none", "Exception", "BaseException"}

\* ObservabilityLogger.get_logger(name) on a fresh process: no level, no
\* handlers, global level DEBUG
Logger_init ==
    /\ lg_level = NoneVal
    /\ lg_global_level = DEBUG
    /\ lg_handlers = <<>>
    /\ lg_global_handlers = <<>>
    /\ lg_sinks = <<>>
    /\ lg_console = <<>>
    /\ lg_stderr = <<>>
    /\ lg_calls = 0
    /\ lg_last = NoneVal

\* `logger.level = level` (the attribute __init__ sets)
Logger_set_level(level) ==
    /\ lg_level' = level
    /\ UNCHANGED <<lg_global_level, lg_handlers, lg_global_handlers, lg_sinks,
                   lg_console, lg_stderr, lg_calls, lg_last>>

\* set_global_level
Logger_set_global_level(level) ==
    /\ lg_global_level' = level
    /\ UNCHANGED <<lg_level, lg_handlers, lg_global_handlers, lg_sinks,
                   lg_console, lg_stderr, lg_calls, lg_last>>

\* LogHandler.__init__(level) of a new handler
LogHandler_init(level, fault) ==
    [level |-> level, fault |-> fault, entries |-> <<>>]

\* a handler is constructed
LogHandler_new(level, fault) ==
    /\ lg_sinks' = Append(lg_sinks, LogHandler_init(level, fault))
    /\ UNCHANGED <<lg_level, lg_global_level, lg_handlers, lg_global_handlers,
                   lg_console, lg_stderr, lg_calls, lg_last>>

\* handlers attached so far, to the logger or process-wide
Logger_attached == Len(lg_handlers) + Len(lg_global_handlers)

\* add_handler(handler)
Logger_add_handler(h) ==
    /\ lg_handlers' = Append(lg_handlers, h)
    /\ UNCHANGED <<lg_level, lg_global_level, lg_global_handlers, lg_sinks,
                   lg_console, lg_stderr, lg_calls, lg_last>>

\* add_global_handler(handler)
Logger_add_global_handler(h) ==
    /\ lg_global_handlers' = Append(lg_global_handlers, h)
    /\ UNCHANGED <<lg_level, lg_global_level, lg_handlers, lg_sinks,
                   lg_console, lg_stderr, lg_calls, lg_last>>

\* _get_effective_level (Logger_get_effective_level_global ignores the
\* logger's own level)
Logger_get_effective_level_global == lg_global_level
Logger_get_effective_level ==
    IF ~IsNone(lg_level) THEN lg_level[1] ELSE lg_global_level

\* _should_log
Logger_should_log(level) == level >= Logger_get_effective_level

\* `{**context_extra, **extra}` (Logger_merged_extra_ambient_wins merges the
\* other way round)
Logger_merged_extra_ambient_wins(context_extra, extra) ==
    DictMerge(extra, context_extra)
Logger_merged_extra(context_extra, extra) == DictMerge(context_extra, extra)

\* the LogEntry _log builds; id tells the entries of different calls apart
Logger_entry(t, level, extra) ==
    [id |-> lg_calls + 1, level |-> level, logger_name |-> "root",
     correlation_id |-> LogContext_get_correlation_id(t),
     trace_id |-> LogContext_get_trace_id(t),
     span_id |-> LogContext_get_span_id(t),
     extra |-> Logger_merged_extra(LogContext_get_extra(t), extra)]

\* `all_handlers = self._handlers + self._global_handlers`, a default
\* ConsoleHandler (0) if that is empty (Logger_all_handlers_global_first
\* puts the process-wide sinks first)
Logger_all_handlers_global_first ==
    IF lg_handlers \o lg_global_handlers = <<>> THEN <<0>>
    ELSE lg_global_handlers \o lg_handlers
Logger_all_handlers ==
    IF lg_handlers \o lg_global_handlers = <<>> THEN <<0>>
    ELSE lg_handlers \o lg_global_handlers

\* handler.emit(entry): nothing below the handler's level, else the handler
\* writes the entry or raises
LogHandler_emit(sink, entry) ==
    IF entry.level < sink.level THEN [sink |-> sink, raised |-> "none"]
    ELSE IF sink.fault = "none"
         THEN [sink |-> [sink EXCEPT !.entries = Append(@, entry)],
               raised |-> "none"]
         ELSE [sink |-> sink, raised |-> sink.fault]

\* `except Exception` around handler.emit (Logger_caught_never lets every
\* exception through)
Logger_caught_never(raised) == FALSE
Logger_caught(raised) == raised = "Exception"

\* the loop `for handler in all_handlers: try: handler.emit(entry) except
\* Exception as e: sys.stderr.write(...)` from position n on; d holds the
\* sinks, the console, stderr, the sinks emit was called on and the
\* exception leaving the loop
RECURSIVE Logger_dispatch(_, _, _, _)
Logger_dispatch(handlers, n, entry, d) ==
    IF n > Len(handlers) THEN d
    ELSE LET h == handlers[n]
             e == IF h = 0 THEN [sink |-> 0, raised |-> "none"]
                  ELSE LogHandler_emit(d.sinks[h], entry)
             after == [d EXCEPT
                 !.sinks = IF h = 0 THEN @ ELSE [@ EXCEPT ![h] = e.sink],
                 !.console = IF h = 0 THEN Append(@, entry) ELSE @,
                 !.handed = Append(@, h)]
         IN IF e.raised = "none"
            THEN Logger_dispatch(handlers, n + 1, entry, after)
            ELSE IF Logger_caught(e.raised)
                 THEN Logger_dispatch(handlers, n + 1, entry,
                         [after EXCEPT !.stderr =
                             Append(@, [sink |-> h, entry |-> entry.id])])
                 ELSE [after EXCEPT !.raised = e.raised]

\* ObservabilityLogger._log(level, message, **extra)
ObservabilityLogger_log(t, level, extra) ==
    /\ LogContext_running(t) /\ LogContext_entered(t)
    /\ LET call == [level |-> level, extra |-> extra,
                    context_extra |-> LogContext_get_extra(t),
                    logger_level |-> lg_level,
                    global_level |-> lg_global_level]
       IN IF ~Logger_should_log(level)
          THEN /\ lg_last' = Some(call @@ [entry |-> NoneVal,
                                             handed |-> <<>>,
                                             raised |-> "none"])
               /\ UNCHANGED <<lg_sinks, lg_console, lg_stderr>>
          ELSE LET entry == Logger_entry(t, level, extra)
                   d == Logger_dispatch(Logger_all_handlers, 1, entry,
                           [sinks |-> lg_sinks, console |-> lg_console,
                            stderr |-> lg_stderr, handed |-> <<>>,
                            raised |-> "none"])
               IN /\ lg_sinks' = d.sinks
                  /\ lg_console' = d.console
                  /\ lg_stderr' = d.stderr
                  /\ lg_last' = Some(call @@ [entry |-> Some(entry),
                                                handed |-> d.handed,
                                                raised |-> d.raised])
    /\ lg_calls' = lg_calls + 1
    /\ UNCHANGED <<lg_level, lg_global_level, lg_handlers, lg_global_handlers>>

\* ========================================================== MemoryHandler
VARIABLES
    mem_max_entries,   \* MemoryHandler.max_entries
    mem_entries,       \* MemoryHandler._entries
    mem_lock,          \* MemoryHandler._lock
    mem_pc,            \* per thread: position inside emit()
    mem_frame,         \* per thread: the entry of the emit in flight, 0: none
    mem_accepted       \* the entries emit has appended so far, in that order

mem_vars == <<mem_max_entries, mem_entries, mem_lock, mem_pc, mem_frame,
              mem_accepted>>

\* MemoryHandler.__init__'s default max_entries
DefaultMaxEntries == 10000

\* MemoryHandler()
MemoryHandler_init_default ==
    /\ mem_max_entries = DefaultMaxEntries
    /\ mem_entries = <<>>
    /\ mem_lock = 0
    /\ mem_pc = [t \in Threads |-> "idle"]
    /\ mem_frame = [t \in Threads |-> 0]
    /\ mem_accepted = <<>>

\* MemoryHandler(max_entries=max_entries), before the handler is used
MemoryHandler_init(max_entries) ==
    /\ mem_max_entries = DefaultMaxEntries
    /\ mem_accepted = <<>>
    /\ \A t \in Threads : mem_pc[t] = "idle"
    /\ mem_max_entries' = max_entries
    /\ UNCHANGED <<mem_entries, mem_lock, mem_pc, mem_frame, mem_accepted>>

\* Python's seq[-n:]: the last n items; the whole list when n is 0 (-0 is 0)
\* or n is not less than its length
SliceLast(seq, n) ==
    IF n = 0 \/ n >= Len(seq) THEN seq
    ELSE SubSeq(seq, Len(seq) - n + 1, Len(seq))

\* emit(entry) of an entry the handler's level admits, up to `with
\* self._lock`; entries are numbered in the order the lock is taken
MemoryHandler_emit_acquire(t) ==
    /\ mem_pc[t] = "idle"
    /\ LockFree(mem_lock)
    /\ mem_lock' = t
    /\ mem_frame' = [mem_frame EXCEPT ![t] = Len(mem_accepted) + 1]
    /\ mem_pc' = [mem_pc EXCEPT ![t] = "append"]
    /\ UNCHANGED <<mem_max_entries, mem_entries, mem_accepted>>

\* emit: `self._entries.append(entry)`
MemoryHandler_emit_append(t) ==
    /\ mem_pc[t] = "append"
    /\ mem_entries' = Append(mem_entries, mem_frame[t])
    /\ mem_accepted' = Append(mem_accepted, mem_frame[t])
    /\ mem_pc' = [mem_pc EXCEPT ![t] = "truncate"]
    /\ UNCHANGED <<mem_max_entries, mem_lock, mem_frame>>

\* emit: `if len(self._entries) > self.max_entries: self._entries =
\* self._entries[-self.max_entries:]`, and the lock is left
MemoryHandler_emit_truncate(t) ==
    /\ mem_pc[t] = "truncate"
    /\ mem_entries' = IF Len(mem_entries) > mem_max_entries
                      THEN SliceLast(mem_entries, mem_max_entries)
                      ELSE mem_entries
    /\ mem_lock' = 0
    /\ mem_frame' = [mem_frame EXCEPT ![t] = 0]
    /\ mem_pc' = [mem_pc EXCEPT ![t] = "idle"]
    /\ UNCHANGED <<mem_max_entries, mem_accepted>>

\* get_entries(): a copy of the list, taken without the lock
MemoryHandler_get_entries == mem_entries

\* ============================================================== Histogram
VARIABLES
    hist_buckets,      \* Histogram.buckets
    hist_values,       \* Histogram._values
    hist_timestamps,   \* Histogram._timestamps
    hist_lock,         \* Histogram._lock
    hist_pc,           \* per thread: position inside observe()
    hist_frame,        \* per thread: the value of the observe in flight
    hist_calls,        \* the values of the observe calls begun so far
    hist_query         \* what the last read returned, None if there was
                       \* none since the values last changed

hist_vars == <<hist_buckets, hist_values, hist_timestamps, hist_lock, hist_pc,
               hist_frame, hist_calls, hist_query>>

\* values callers observe, boundaries callers configure, percentiles asked
ObservedValues == {0, 2, 3}
Boundaries == {1, 2}
BucketLists == UNION {[1..n -> Boundaries] : n \in 0..MaxBuckets}
Percentiles == 0..100

\* Histogram(name): no observations, the default boundaries
Histogram_init ==
    /\ hist_buckets = DefaultBuckets
    /\ hist_values = <<>>
    /\ hist_timestamps = <<>>
    /\ hist_lock = 0
    /\ hist_pc = [t \in Threads |-> "idle"]
    /\ hist_frame = [t \in Threads |-> 0]
    /\ hist_calls = <<>>
    /\ hist_query = NoneVal

\* Histogram(name, buckets=buckets), before the histogram is used:
\* `buckets or [...]`
Histogram_new(buckets) ==
    /\ hist_calls = <<>>
    /\ hist_buckets = DefaultBuckets
    /\ hist_buckets' = OrDefault(Some(buckets), <<>>, DefaultBuckets)
    /\ hist_query' = NoneVal
    /\ UNCHANGED <<hist_values, hist_timestamps, hist_lock, hist_pc,
                   hist_frame, hist_calls>>

\* observe(value) up to `with self._lock`
Histogram_observe_acquire(t, value) ==
    /\ hist_pc[t] = "idle"
    /\ hist_calls' = Append(hist_calls, value)
    /\ hist_frame' = [hist_frame EXCEPT ![t] = value]
    /\ hist_pc' = [hist_pc EXCEPT ![t] = "lock"]
    /\ hist_query' = NoneVal
    /\ UNCHANGED <<hist_buckets, hist_values, hist_timestamps, hist_lock>>

\* observe: the lock is taken and `self._values.append(value)`
Histogram_observe_value(t) ==
    /\ hist_pc[t] = "lock"
    /\ LockFree(hist_lock)
    /\ hist_lock' = t
    /\ hist_values' = Append(hist_values, hist_frame[t])
    /\ hist_pc' = [hist_pc EXCEPT ![t] = "timestamp"]
    /\ hist_query' = NoneVal
    /\ UNCHANGED <<hist_buckets, hist_timestamps, hist_frame, hist_calls>>

\* observe: `self._timestamps.append(time.time())` and the lock is left
Histogram_observe_timestamp(t) ==
    /\ hist_pc[t] = "timestamp"
    /\ \E now \in Clock : hist_timestamps' = Append(hist_timestamps, now)
    /\ hist_lock' = 0
    /\ hist_pc' = [hist_pc EXCEPT ![t] = "idle"]
    /\ UNCHANGED <<hist_buckets, hist_values, hist_frame, hist_calls,
                   hist_query>>

\* sum(values)
RECURSIVE SeqSum(_)
SeqSum(values) ==
    IF values = <<>> THEN 0 ELSE Head(values) + SeqSum(Tail(values))

\* min(values), max(values) of a non-empty list
SeqMin(values) ==
    CHOOSE v \in {values[n] : n \in DOMAIN values} :
        \A n \in DOMAIN values : v <= values[n]
SeqMax(values) ==
    CHOOSE v \in {values[n] : n \in DOMAIN values} :
        \A n \in DOMAIN values : v >= values[n]

\* sorted(values): insertion into the sorted rest (Histogram_sorted_not
\* leaves the list as it is)
RECURSIVE Insert(_, _)
Insert(v, sorted) ==
    IF sorted = <<>> THEN <<v>>
    ELSE IF v <= Head(sorted) THEN <<v>> \o sorted
         ELSE <<Head(sorted)>> \o Insert(v, Tail(sorted))
RECURSIVE InsertionSort(_)
InsertionSort(values) ==
    IF values = <<>> THEN <<>>
    ELSE Insert(Head(values), InsertionSort(Tail(values)))
Histogram_sorted_not(values) == values
Histogram_sorted(values) == InsertionSort(values)

\* get_count, get_sum
Histogram_get_count(values) == Len(values)
Histogram_get_sum(values) == IF values # <<>> THEN SeqSum(values) ELSE 0

\* statistics.mean(values): the quotient as numerator and denominator; it
\* raises StatisticsError for an empty list
Statistics_mean(values) ==
    IF values = <<>> THEN Raised
    ELSE Returned([num |-> SeqSum(values), den |-> Len(values)])

\* get_mean: `statistics.mean(self._values) if self._values else 0.0`
\* (Histogram_get_mean_unguarded calls statistics.mean in every case)
Histogram_get_mean_unguarded(values) == Statistics_mean(values)
Histogram_get_mean(values) ==
    IF values # <<>> THEN Statistics_mean(values)
    ELSE Returned([num |-> 0, den |-> 1])

\* `min(idx, len(sorted_values) - 1)` (Histogram_clamp_wrapped wraps the
\* index round instead)
Histogram_clamp_wrapped(idx, n) == idx % n
Histogram_clamp(idx, n) == IF idx < n - 1 THEN idx ELSE n - 1

\* get_percentile(p); int() of a quotient that is not negative is its floor,
\* and Python's index i is position i + 1 here
Histogram_get_percentile(values, p) ==
    IF values = <<>> THEN 0
    ELSE LET sorted_values == Histogram_sorted(values)
             idx == (Len(sorted_values) * p) \div 100
         IN sorted_values[Histogram_clamp(idx, Len(sorted_values)) + 1]

\* `if value <= bucket`
Histogram_in_bucket(value, bucket) == value <= bucket

\* get_bucket_counts: one key le_<b> per boundary value b, raised once for
\* every value and every position of the boundary list that holds b and
\* admits the value; le_inf is the number of values
Histogram_get_bucket_counts(values, buckets) ==
    [le |-> [b \in {buckets[n] : n \in DOMAIN buckets} |->
                Cardinality({<<i, n>> \in (DOMAIN values) \X (DOMAIN buckets) :
                               /\ buckets[n] = b
                               /\ Histogram_in_bucket(values[i], buckets[n])})],
     le_inf |-> Len(values)]

\* to_dict: the statistics of the export (name, description, labels and the
\* raw observation list are left out)
Histogram_to_dict(values, buckets) ==
    [count |-> Histogram_get_count(values),
     sum |-> Histogram_get_sum(values),
     mean |-> IF values # <<>> THEN Some(Histogram_get_mean(values).context)
              ELSE NoneVal,
     min |-> IF values # <<>> THEN Some(SeqMin(values)) ELSE NoneVal,
     max |-> IF values # <<>> THEN Some(SeqMax(values)) ELSE NoneVal,
     p50 |-> IF values # <<>> THEN Some(Histogram_get_percentile(values, 50))
             ELSE NoneVal,
     p90 |-> IF values # <<>> THEN Some(Histogram_get_percentile(values, 90))
             ELSE NoneVal,
     p99 |-> IF values # <<>> THEN Some(Histogram_get_percentile(values, 99))
             ELSE NoneVal,
     buckets |-> Histogram_get_bucket_counts(values, buckets)]

\* a caller reads the histogram: what it asked and what it got
Histogram_read(op, arg, result) ==
    /\ hist_query' = Some([op |-> op, arg |-> arg, result |-> result])
    /\ UNCHANGED <<hist_buckets, hist_values, hist_timestamps, hist_lock,
                   hist_pc, hist_frame, hist_calls>>

\* ==================================================================== Gauge
\* metrics.py 80-151: one shared Gauge
VARIABLES
    gauge_value,       \* Gauge._value
    gauge_history,     \* Gauge._history, the values it recorded
    gauge_lock,        \* Gauge._lock
    gauge_pc,          \* per thread: position inside set / inc / dec
    gauge_frame,       \* per thread: the call in flight and what it loaded
    gauge_begun        \* per thread: the calls it has begun, in order

gauge_vars == <<gauge_value, gauge_history, gauge_lock, gauge_pc,
                gauge_frame, gauge_begun>>

\* the calls callers make on the gauge
GaugeCalls ==
    {[op |-> "set", arg |-> 0], [op |-> "inc", arg |-> 1],
     [op |-> "inc", arg |-> 2], [op |-> "dec", arg |-> 1]}

\* Gauge(name)
Gauge_init ==
    /\ gauge_value = 0
    /\ gauge_history = <<>>
    /\ gauge_lock = 0
    /\ gauge_pc = [t \in Threads |-> "idle"]
    /\ gauge_frame = [t \in Threads |-> [op |-> "set", arg |-> 0, tmp |-> 0]]
    /\ gauge_begun = [t \in Threads |-> <<>>]

\* `self._value = value`, `self._value += amount`, `self._value -= amount`
Gauge_result(call, value) ==
    CASE call.op = "set" -> call.arg
      [] call.op = "inc" -> value + call.arg
      [] call.op = "dec" -> value - call.arg

\* set / inc / dec are called and `with self._lock` is entered
Gauge_acquire(t, call) ==
    /\ gauge_pc[t] = "idle"
    /\ LockFree(gauge_lock)
    /\ gauge_lock' = t
    /\ gauge_frame' = [gauge_frame EXCEPT
                          ![t] = [op |-> call.op, arg |-> call.arg, tmp |-> 0]]
    /\ gauge_begun' = [gauge_begun EXCEPT ![t] = Append(@, call)]
    /\ gauge_pc' = [gauge_pc EXCEPT ![t] = "load"]
    /\ UNCHANGED <<gauge_value, gauge_history>>

\* the right-hand side is evaluated: inc and dec read `self._value`
Gauge_load(t) ==
    /\ gauge_pc[t] = "load"
    /\ gauge_frame' = [gauge_frame EXCEPT
                          ![t].tmp = Gauge_result(gauge_frame[t], gauge_value)]
    /\ gauge_pc' = [gauge_pc EXCEPT ![t] = "store"]
    /\ UNCHANGED <<gauge_value, gauge_history, gauge_lock, gauge_begun>>

\* `self._value` is assigned and `self._history.append(MetricValue(...))`
Gauge_store(t) ==
    /\ gauge_pc[t] = "store"
    /\ gauge_value' = gauge_frame[t].tmp
    /\ gauge_history' = Append(gauge_history, gauge_frame[t].tmp)
    /\ gauge_pc' = [gauge_pc EXCEPT ![t] = "release"]
    /\ UNCHANGED <<gauge_lock, gauge_frame, gauge_begun>>

\* the `with self._lock` block is left
Gauge_release(t) ==
    /\ gauge_pc[t] = "release"
    /\ gauge_lock' = 0
    /\ gauge_pc' = [gauge_pc EXCEPT ![t] = "idle"]
    /\ UNCHANGED <<gauge_value, gauge_history, gauge_frame, gauge_begun>>

\* get(): `return self._value`
Gauge_get == gauge_value

\* ==================================================================== Timer
\* metrics.py 234-291: one shared Timer; its `_histogram` is the Histogram of
\* the section above
VARIABLES
    tm_start_time,     \* Timer._start_time
    tm_pc,             \* per thread: position inside stop()
    tm_frame,          \* per thread: stop()'s local `duration`
    tm_blocks,         \* per thread: the time() blocks it has open, innermost
                       \* last; each says whether the timer was left alone
                       \* since the block was entered
    tm_exit,           \* per thread: the fault of the time() block whose
                       \* finally clause is running, None for a plain stop()
    tm_before,         \* per thread: observations held when its stop() began
    tm_trace           \* the calls that have returned or raised, in order

tm_vars == <<tm_start_time, tm_pc, tm_frame, tm_blocks, tm_exit, tm_before,
             tm_trace>>

\* Timer(name)
Timer_init ==
    /\ tm_start_time = NoneVal
    /\ tm_pc = [t \in Threads |-> "idle"]
    /\ tm_frame = [t \in Threads |-> 0]
    /\ tm_blocks = [t \in Threads |-> <<>>]
    /\ tm_exit = [t \in Threads |-> NoneVal]
    /\ tm_before = [t \in Threads |-> 0]
    /\ tm_trace = <<>>

\* every open block of every thread has seen another call on the timer
Timer_disturbed(blocks) ==
    [t \in Threads |-> [i \in DOMAIN blocks[t] |-> [clean |-> FALSE]]]

\* stop(): `self._start_time is None`
Timer_not_started_never(start_time) == FALSE
Timer_not_started(start_time) == IsNone(start_time)

\* what leaves a time() block: the fault of the block is raised again after
\* `finally: self.stop()`, unless stop() raises
Timer_time_reaches_swallowed(fault, outcome) ==
    IF outcome # "ok" THEN outcome ELSE "none"
Timer_time_reaches(fault, outcome) ==
    IF outcome # "ok" THEN outcome ELSE fault

\* a stop() of thread t is over: the call, or the time() block it closes, is
\* written down
Timer_stop_done(t, exit, before, outcome) ==
    LET scoped == ~IsNone(exit)
        fault == IF scoped THEN exit[1] ELSE "none"
        open == IF scoped
                THEN [tm_blocks EXCEPT
                         ![t] = SubSeq(tm_blocks[t], 1, Len(tm_blocks[t]) - 1)]
                ELSE tm_blocks
    IN /\ tm_trace' = Append(tm_trace,
             [thread |-> t, op |-> "stop", scoped |-> scoped,
              clean |-> scoped /\ tm_blocks[t][Len(tm_blocks[t])].clean,
              fault |-> fault, outcome |-> outcome,
              reached |-> IF scoped THEN Timer_time_reaches(fault, outcome)
                          ELSE IF outcome = "ok" THEN "none" ELSE outcome,
              before |-> before,
              after |-> Len(hist_values),
              left |-> IF outcome = "ok" THEN NoneVal ELSE tm_start_time])
       /\ tm_blocks' = Timer_disturbed(open)
       /\ tm_exit' = [tm_exit EXCEPT ![t] = NoneVal]
       /\ tm_pc' = [tm_pc EXCEPT ![t] = "idle"]

\* start(): `self._start_time = time.time()`; time() pushes nothing but the
\* generator's frame, kept here as an open block
Timer_start_store(t, scoped) ==
    /\ tm_pc[t] = "idle"
    /\ \E now \in Clock : tm_start_time' = Some(now)
    /\ tm_trace' = Append(tm_trace,
          [thread |-> t, op |-> "start", scoped |-> scoped, clean |-> FALSE,
           fault |-> "none", outcome |-> "ok", reached |-> "none",
           before |-> Len(hist_values), after |-> Len(hist_values),
           left |-> tm_start_time'])
    /\ tm_blocks' =
          IF scoped
          THEN [Timer_disturbed(tm_blocks) EXCEPT
                   ![t] = Append(@, [clean |-> TRUE])]
          ELSE Timer_disturbed(tm_blocks)
    /\ UNCHANGED <<tm_pc, tm_frame, tm_exit, tm_before, hist_vars>>

Timer_start(t) == Timer_start_store(t, FALSE)

\* stop(): `if self._start_time is None: raise RuntimeError(...)`
Timer_stop_check(t, exit) ==
    /\ tm_pc[t] = "idle"
    /\ IF Timer_not_started(tm_start_time)
       THEN /\ Timer_stop_done(t, exit, Len(hist_values), "RuntimeError")
            /\ UNCHANGED tm_before
       ELSE /\ tm_pc' = [tm_pc EXCEPT ![t] = "read"]
            /\ tm_exit' = [tm_exit EXCEPT ![t] = exit]
            /\ tm_before' = [tm_before EXCEPT ![t] = Len(hist_values)]
            /\ UNCHANGED <<tm_trace, tm_blocks>>
    /\ UNCHANGED <<tm_start_time, tm_frame, hist_vars>>

Timer_stop(t) == Timer_stop_check(t, NoneVal)

\* stop(): `duration = time.time() - self._start_time`, a TypeError when the
\* start has been cleared since the check, then
\* `self._histogram.observe(duration)` is called
Timer_stop_read(t) ==
    /\ tm_pc[t] = "read"
    /\ IF IsNone(tm_start_time)
       THEN /\ Timer_stop_done(t, tm_exit[t], tm_before[t], "TypeError")
            /\ UNCHANGED <<tm_start_time, tm_frame, tm_before, hist_vars>>
       ELSE /\ \E now \in Clock :
                  /\ tm_frame' = [tm_frame EXCEPT
                                     ![t] = now - tm_start_time[1]]
                  /\ Histogram_observe_acquire(t, now - tm_start_time[1])
            /\ tm_pc' = [tm_pc EXCEPT ![t] = "observe"]
            /\ UNCHANGED <<tm_start_time, tm_blocks, tm_exit, tm_before,
                           tm_trace>>

\* stop(): the steps of Histogram.observe
Timer_stop_observe(t) ==
    /\ tm_pc[t] = "observe"
    /\ \/ Histogram_observe_value(t)
       \/ Histogram_observe_timestamp(t)
    /\ UNCHANGED tm_vars

\* stop(): `self._start_time = None; return duration`
Timer_stop_clear(t) ==
    /\ tm_pc[t] = "observe"
    /\ hist_pc[t] = "idle"
    /\ tm_start_time' = NoneVal
    /\ Timer_stop_done(t, tm_exit[t], tm_before[t], "ok")
    /\ UNCHANGED <<tm_frame, tm_before, hist_vars>>

\* time(): `self.start()` and the block is entered
Timer_time_enter(t) == Timer_start_store(t, TRUE)

\* time(): the block is left with `fault`, `finally: self.stop()` begins
Timer_time_exit(t, fault) ==
    /\ tm_blocks[t] # <<>>
    /\ Timer_stop_check(t, Some(fault))

\* ================================================ Histogram.to_dict, stepwise
\* to_dict evaluates its fields one after the other and takes no lock; the
\* fields kept here are count, sum, buckets (its le_inf) and values
VARIABLES
    exp_pc,            \* the export's position: the field evaluated next
    exp_out            \* the fields of the export evaluated so far

exp_vars == <<exp_pc, exp_out>>

NoExport == [count |-> 0, sum |-> 0, le_inf |-> 0, values |-> <<>>]

Export_init ==
    /\ exp_pc = "idle"
    /\ exp_out = NoExport

\* zip(a, b): pairs up to the end of the shorter list
Zip(a, b) ==
    [n \in 1..(IF Len(a) <= Len(b) THEN Len(a) ELSE Len(b)) |-> <<a[n], b[n]>>]

\* to_dict: `"count": self.get_count()`
Histogram_to_dict_count ==
    /\ exp_pc \in {"idle", "done"}
    /\ exp_out' = [NoExport EXCEPT !.count = Histogram_get_count(hist_values)]
    /\ exp_pc' = "sum"

\* to_dict: `"sum": self.get_sum()`
Histogram_to_dict_sum ==
    /\ exp_pc = "sum"
    /\ exp_out' = [exp_out EXCEPT !.sum = Histogram_get_sum(hist_values)]
    /\ exp_pc' = "buckets"

\* to_dict: `"buckets": self.get_bucket_counts()`
Histogram_to_dict_buckets ==
    /\ exp_pc = "buckets"
    /\ exp_out' = [exp_out EXCEPT !.le_inf =
           Histogram_get_bucket_counts(hist_values, hist_buckets).le_inf]
    /\ exp_pc' = "values"

\* to_dict: `"values": [... for v, t in zip(self._values, self._timestamps)]`
Histogram_to_dict_values ==
    /\ exp_pc = "values"
    /\ exp_out' = [exp_out EXCEPT !.values = Zip(hist_values, hist_timestamps)]
    /\ exp_pc' = "done"

\* ============================================ MetricsCollector() and Tracer()
\* The two classes built as process-wide singletons: __new__ with a class
\* attribute _instance behind a class lock, __init__ behind the instance's
\* _initialized flag.
VARIABLES
    sgl_instance,      \* per class: cls._instance, 0 for None, else the object
    sgl_created,       \* per class: objects made by super().__new__(cls)
    sgl_lock,          \* per class: cls._lock, 0 or the thread inside
    sgl_initialized,   \* per class: the object's _initialized attribute
    sgl_inits,         \* per class: times the body of __init__ has run
    sgl_pc,            \* per thread: position in cls()
    sgl_frame,         \* per thread: the class being constructed, `self`
    sgl_handle,        \* per thread and class: what cls() returned, 0 if none
    sgl_raised,        \* per thread: constructions that raised AttributeError
    sgl_calls          \* per thread: constructions begun

sgl_vars == <<sgl_instance, sgl_created, sgl_lock, sgl_initialized, sgl_inits,
              sgl_pc, sgl_frame, sgl_handle, sgl_raised, sgl_calls>>

Classes == {"MetricsCollector", "Tracer"}

NoConstruction == [cls |-> "MetricsCollector", self |-> 0]

Singleton_init ==
    /\ sgl_instance = [c \in Classes |-> 0]
    /\ sgl_created = [c \in Classes |-> 0]
    /\ sgl_lock = [c \in Classes |-> 0]
    /\ sgl_initialized = [c \in Classes |-> "unset"]
    /\ sgl_inits = [c \in Classes |-> 0]
    /\ sgl_pc = [t \in Threads |-> "idle"]
    /\ sgl_frame = [t \in Threads |-> NoConstruction]
    /\ sgl_handle = [t \in Threads |-> [c \in Classes |-> 0]]
    /\ sgl_raised = [t \in Threads |-> 0]
    /\ sgl_calls = [t \in Threads |-> 0]

\* __new__: `if cls._instance is None:`, the test made outside and again
\* inside the lock (Singleton_absent_unlocked treats the test inside the lock
\* as passed)
Singleton_absent_unlocked(instance) == TRUE
Singleton_absent(instance) == instance = 0

\* cls(): __new__ is entered and `if cls._instance is None` is evaluated
Singleton_new(t, c) ==
    /\ sgl_pc[t] = "idle"
    /\ sgl_frame' = [sgl_frame EXCEPT ![t] = [cls |-> c, self |-> 0]]
    /\ sgl_pc' = [sgl_pc EXCEPT ![t] =
            IF sgl_instance[c] = 0 THEN "new_lock" ELSE "new_return"]
    /\ sgl_calls' = [sgl_calls EXCEPT ![t] = @ + 1]
    /\ UNCHANGED <<sgl_instance, sgl_created, sgl_lock, sgl_initialized,
                   sgl_inits, sgl_handle, sgl_raised>>

\* __new__: `with cls._lock:` and the second `if cls._instance is None`
Singleton_new_acquire(t) ==
    /\ sgl_pc[t] = "new_lock"
    /\ LockFree(sgl_lock[sgl_frame[t].cls])
    /\ sgl_lock' = [sgl_lock EXCEPT ![sgl_frame[t].cls] = t]
    /\ sgl_pc' = [sgl_pc EXCEPT ![t] =
            IF Singleton_absent(sgl_instance[sgl_frame[t].cls])
                THEN "new_create" ELSE "new_release"]
    /\ UNCHANGED <<sgl_instance, sgl_created, sgl_initialized, sgl_inits,
                   sgl_frame, sgl_handle, sgl_raised, sgl_calls>>

\* __new__: `cls._instance = super().__new__(cls)`, an object that has no
\* _initialized attribute yet
Singleton_new_create(t) ==
    /\ sgl_pc[t] = "new_create"
    /\ LET c == sgl_frame[t].cls IN
          /\ sgl_created' = [sgl_created EXCEPT ![c] = @ + 1]
          /\ sgl_instance' = [sgl_instance EXCEPT ![c] = sgl_created[c] + 1]
          /\ sgl_initialized' = [sgl_initialized EXCEPT ![c] = "unset"]
    /\ sgl_pc' = [sgl_pc EXCEPT ![t] = "new_flag"]
    /\ UNCHANGED <<sgl_lock, sgl_inits, sgl_frame, sgl_handle, sgl_raised,
                   sgl_calls>>

\* __new__: `cls._instance._initialized = False`
Singleton_new_flag(t) ==
    /\ sgl_pc[t] = "new_flag"
    /\ sgl_initialized' = [sgl_initialized EXCEPT ![sgl_frame[t].cls] = "False"]
    /\ sgl_pc' = [sgl_pc EXCEPT ![t] = "new_release"]
    /\ UNCHANGED <<sgl_instance, sgl_created, sgl_lock, sgl_inits, sgl_frame,
                   sgl_handle, sgl_raised, sgl_calls>>

\* __new__: the end of the `with cls._lock` block
Singleton_new_release(t) ==
    /\ sgl_pc[t] = "new_release"
    /\ sgl_lock' = [sgl_lock EXCEPT ![sgl_frame[t].cls] = 0]
    /\ sgl_pc' = [sgl_pc EXCEPT ![t] = "new_return"]
    /\ UNCHANGED <<sgl_instance, sgl_created, sgl_initialized, sgl_inits,
                   sgl_frame, sgl_handle, sgl_raised, sgl_calls>>

\* __new__: `return cls._instance`; __init__ is then called on the object
Singleton_new_return(t) ==
    /\ sgl_pc[t] = "new_return"
    /\ sgl_frame' = [sgl_frame EXCEPT
            ![t].self = sgl_instance[sgl_frame[t].cls]]
    /\ sgl_pc' = [sgl_pc EXCEPT ![t] = "init_check"]
    /\ UNCHANGED <<sgl_instance, sgl_created, sgl_lock, sgl_initialized,
                   sgl_inits, sgl_handle, sgl_raised, sgl_calls>>

\* __init__: `if self._initialized: return`, read without a lock; the read
\* raises AttributeError while the attribute has not been set
Singleton_init_check(t) ==
    /\ sgl_pc[t] = "init_check"
    /\ LET c == sgl_frame[t].cls
           flag == sgl_initialized[c]
       IN /\ sgl_pc' = [sgl_pc EXCEPT ![t] =
                 IF flag = "False" THEN "init_body" ELSE "idle"]
          /\ sgl_handle' = [sgl_handle EXCEPT ![t][c] =
                 IF flag = "True" THEN sgl_frame[t].self ELSE @]
          /\ sgl_raised' = [sgl_raised EXCEPT ![t] =
                 IF flag = "unset" THEN @ + 1 ELSE @]
          /\ sgl_frame' = [sgl_frame EXCEPT ![t] =
                 IF flag = "False" THEN @ ELSE NoConstruction]
    /\ UNCHANGED <<sgl_instance, sgl_created, sgl_lock, sgl_initialized,
                   sgl_inits, sgl_calls>>

\* MetricsCollector.__init__: `self._counters = {}` and the three other
\* tables.  The metric objects made before stay with their holders.
MetricsCollector_init_body ==
    /\ reg_table' = [k \in Kinds |-> [n \in Names |-> 0]]
    /\ UNCHANGED <<reg_inst, reg_pc, reg_args, reg_handle, reg_updates,
                   reg_calls>>

\* Tracer.__init__: service_name, _traces, _completed_spans and a new _lock
Tracer_init_body ==
    /\ tr_service_name' = "unknown"
    /\ tr_traces' = <<>>
    /\ tr_completed' = <<>>
    /\ tr_lock' = 0
    /\ UNCHANGED <<tr_spans, tr_calls, tr_next_id, tr_stack, tr_pc, tr_frame,
                   tr_scopes, tr_raising>>

\* __init__: the assignments of the instance's state
Singleton_init_body(t) ==
    /\ sgl_pc[t] = "init_body"
    /\ IF sgl_frame[t].cls = "MetricsCollector"
          THEN MetricsCollector_init_body /\ UNCHANGED tr_vars
          ELSE Tracer_init_body /\ UNCHANGED reg_vars
    /\ sgl_inits' = [sgl_inits EXCEPT ![sgl_frame[t].cls] = @ + 1]
    /\ sgl_pc' = [sgl_pc EXCEPT ![t] = "init_flag"]
    /\ UNCHANGED <<sgl_instance, sgl_created, sgl_lock, sgl_initialized,
                   sgl_frame, sgl_handle, sgl_raised, sgl_calls>>

\* __init__: `self._initialized = True`; cls() returns the object
Singleton_init_flag(t) ==
    /\ sgl_pc[t] = "init_flag"
    /\ sgl_initialized' = [sgl_initialized EXCEPT ![sgl_frame[t].cls] = "True"]
    /\ sgl_handle' = [sgl_handle EXCEPT
            ![t][sgl_frame[t].cls] = sgl_frame[t].self]
    /\ sgl_frame' = [sgl_frame EXCEPT ![t] = NoConstruction]
    /\ sgl_pc' = [sgl_pc EXCEPT ![t] = "idle"]
    /\ UNCHANGED <<sgl_instance, sgl_created, sgl_lock, sgl_inits, sgl_raised,
                   sgl_calls>>

\* ========================================================= calling threads
VARIABLES
    amb_actor,        \* the thread that made the last step, 0 before any step
    amb_calls         \* calls begun so far

amb_vars == <<amb_actor, amb_calls>>

Ambient_init ==
    /\ amb_actor = 0
    /\ amb_calls = 0

vars == <<counter_vars, reg_vars, log_vars, tr_vars, amb_vars, hdr_vars,
          lg_vars, mem_vars, hist_vars, tm_vars, gauge_vars, prop_vars,
          sgl_vars, exp_vars>>

Init ==
    /\ Counter_init /\ Registry_init /\ LogContext_init /\ Tracer_init
    /\ Ambient_init /\ Header_init /\ Logger_init /\ MemoryHandler_init_default
    /\ Histogram_init /\ Timer_init /\ Gauge_init /\ Propagation_init
    /\ Singleton_init /\ Export_init

\* threads starting spans (with and without an explicit parent) and ending
\* their own spans once
TracerNext ==
    /\ UNCHANGED <<counter_vars, reg_vars, log_vars, amb_vars,
                 hdr_vars, lg_vars, mem_vars, hist_vars,
                 tm_vars,
                 gauge_vars,
                 prop_vars,
                 sgl_vars,
                 exp_vars>>
    /\ \E t \in Threads :
          \/ /\ Len(tr_spans) < MaxSpans
             /\ \E name \in SpanNames, explicit \in Opt(Tracer_handed_out) :
                   Tracer_start_span_begin(t, name, explicit, FALSE)
          \/ Tracer_start_span_acquire(t)
          \/ Tracer_start_span_register(t)
          \/ Tracer_start_span_return(t)
          \/ \E s \in Tracer_own(t) :
                /\ IsNone(tr_spans[s].end_time)
                /\ Span_end_begin(t, s, NoneVal)
          \/ Span_end_complete(t)

SpecTracer == Init /\ [][TracerNext]_vars

\* one thread working on its spans: manual and scoped spans, set_status,
\* end with and without a timestamp, blocks left normally or by a fault
StatusArgs ==
    {<<SpanStatus_UNSET, NoneVal>>, <<SpanStatus_OK, NoneVal>>,
     <<SpanStatus_ERROR, Some("failed")>>}

StatusNext ==
    /\ UNCHANGED <<counter_vars, reg_vars, log_vars, amb_vars,
                 hdr_vars, lg_vars, mem_vars, hist_vars,
                 tm_vars,
                 gauge_vars,
                 prop_vars,
                 sgl_vars,
                 exp_vars>>
    /\ \E t \in {MainThread} :
          \/ /\ Len(tr_spans) < MaxSpans
             /\ \E name \in SpanNames, scoped \in BOOLEAN :
                   Tracer_start_span_begin(t, name, NoneVal, scoped)
          \/ Tracer_start_span_acquire(t)
          \/ Tracer_start_span_register(t)
          \/ Tracer_start_span_return(t)
          \/ \E s \in Tracer_own(t), a \in StatusArgs :
                Span_set_status(t, s, a[1], a[2])
          \/ \E s \in Tracer_own(t), end_time \in Opt(EndTimes) :
                /\ IsNone(tr_spans[s].end_time)
                /\ s \notin {tr_scopes[t][n] : n \in DOMAIN tr_scopes[t]}
                /\ Span_end_begin(t, s, end_time)
          \/ Span_end_complete(t)
          \/ \E fault \in Faults : Tracer_span_exit(t, fault)
          \/ Tracer_caught(t)

SpecStatus == Init /\ [][StatusNext]_vars

\* calls of Span.end begun so far
Tracer_ends_begun ==
    Len(tr_completed) + Cardinality({t \in Threads : tr_pc[t] = "end_lock"})

\* one thread starting spans and ending them, also spans that are not on top
\* of its stack and spans that were ended before
EndNext ==
    /\ UNCHANGED <<counter_vars, reg_vars, log_vars, amb_vars,
                 hdr_vars, lg_vars, mem_vars, hist_vars,
                 tm_vars,
                 gauge_vars,
                 prop_vars,
                 sgl_vars,
                 exp_vars>>
    /\ \E t \in {MainThread} :
          \/ /\ Len(tr_spans) < MaxSpans
             /\ \E name \in SpanNames :
                   Tracer_start_span_begin(t, name, NoneVal, FALSE)
          \/ Tracer_start_span_acquire(t)
          \/ Tracer_start_span_register(t)
          \/ Tracer_start_span_return(t)
          \/ /\ Tracer_ends_begun < MaxEnds
             /\ \E s \in Tracer_own(t), end_time \in Opt(EndTimes) :
                   Span_end_begin(t, s, end_time)
          \/ Span_end_complete(t)

SpecEnd == Init /\ [][EndNext]_vars

\* one thread nesting manual and scoped spans: every span is ended once, by
\* end() or by leaving its block normally or by a fault
NestNext ==
    /\ UNCHANGED <<counter_vars, reg_vars, log_vars, amb_vars,
                 hdr_vars, lg_vars, mem_vars, hist_vars,
                 tm_vars,
                 gauge_vars,
                 prop_vars,
                 sgl_vars,
                 exp_vars>>
    /\ \E t \in {MainThread} :
          \/ /\ Len(tr_spans) < MaxSpans
             /\ \E name \in SpanNames, scoped \in BOOLEAN :
                   Tracer_start_span_begin(t, name, NoneVal, scoped)
          \/ Tracer_start_span_acquire(t)
          \/ Tracer_start_span_register(t)
          \/ Tracer_start_span_return(t)
          \/ \E s \in Tracer_own(t) :
                /\ IsNone(tr_spans[s].end_time)
                /\ s \notin {tr_scopes[t][n] : n \in DOMAIN tr_scopes[t]}
                /\ Span_end_begin(t, s, NoneVal)
          \/ Span_end_complete(t)
          \/ \E fault \in Faults : Tracer_span_exit(t, fault)
          \/ Tracer_caught(t)

SpecNest == Init /\ [][NestNext]_vars

\* threads starting spans, with and without an explicit parent, while the
\* tracer is configured once
StartNext ==
    /\ UNCHANGED <<counter_vars, reg_vars, log_vars, amb_vars,
                 hdr_vars, lg_vars, mem_vars, hist_vars,
                 tm_vars,
                 gauge_vars,
                 prop_vars,
                 sgl_vars,
                 exp_vars>>
    /\ \E t \in Threads :
          \/ /\ tr_service_name = "unknown"
             /\ \E service_name \in ServiceNames \ {"unknown"} :
                   Tracer_configure(t, service_name)
          \/ /\ Len(tr_spans) < MaxSpans
             /\ \E name \in SpanNames, explicit \in Opt(Tracer_handed_out) :
                   Tracer_start_span_begin(t, name, explicit, FALSE)
          \/ Tracer_start_span_acquire(t)
          \/ Tracer_start_span_register(t)
          \/ Tracer_start_span_return(t)

SpecStart == Init /\ [][StartNext]_vars

\* threads using LogContext and the tracer side by side.  AmbientCall is a
\* call a thread begins, AmbientStep a later step of a call in flight.
AmbientCall(t) ==
    \/ /\ \/ LogContext_set_correlation_id(t, "outer")
          \/ LogContext_set_trace_id(t, "t")
          \/ LogContext_set_span_id(t, "s")
          \/ LogContext_set_extra(t, "k", 1)
          \/ LogContext_clear(t)
          \/ /\ Len(log_frames[t]) < MaxDepth
             /\ LogContext_scope_capture(t, Some("inner"), Some("t"),
                                         Some("s"), [x \in {"k"} |-> 2])
          \/ LogContext_scope_exit(t, FALSE)
       /\ UNCHANGED tr_vars
    \/ /\ \/ /\ Len(tr_spans) < MaxSpans
             /\ Tracer_start_span_begin(t, "op", NoneVal, FALSE)
          \/ \E s \in Tracer_own(t) :
                /\ IsNone(tr_spans[s].end_time)
                /\ Span_end_begin(t, s, NoneVal)
       /\ UNCHANGED log_vars

AmbientStep(t) ==
    \/ /\ LogContext_scope_apply(t)
       /\ UNCHANGED tr_vars
    \/ /\ \/ Tracer_start_span_acquire(t)
          \/ Tracer_start_span_register(t)
          \/ Tracer_start_span_return(t)
          \/ Span_end_complete(t)
       /\ UNCHANGED log_vars

AmbientNext ==
    /\ UNCHANGED <<counter_vars, reg_vars, hdr_vars, lg_vars,
                 mem_vars, hist_vars,
                 tm_vars,
                 gauge_vars,
                 prop_vars,
                 sgl_vars,
                 exp_vars>>
    /\ \E t \in Threads :
          /\ amb_actor' = t
          /\ \/ /\ amb_calls < MaxAmbientCalls
                /\ amb_calls' = amb_calls + 1
                /\ AmbientCall(t)
             \/ /\ UNCHANGED amb_calls
                /\ AmbientStep(t)

SpecAmbient == Init /\ [][AmbientNext]_vars

\* a SpanContext serialized and parsed back, or a header string parsed
HeaderNext ==
    /\ UNCHANGED <<counter_vars, reg_vars, log_vars, tr_vars,
                 amb_vars, lg_vars, mem_vars, hist_vars,
                 tm_vars,
                 gauge_vars,
                 prop_vars,
                 sgl_vars,
                 exp_vars>>
    /\ \/ /\ IsNone(hdr_context) /\ IsNone(hdr_header)
          /\ \E context \in HeaderContexts : Header_build(context)
       \/ /\ IsNone(hdr_context) /\ IsNone(hdr_header)
          /\ \E header \in Headers : Header_arrives(header)
       \/ Header_to_header
       \/ Header_from_header
       \/ Header_extract_context

SpecHeader == Init /\ [][HeaderNext]_vars


\* one thread logging at every level while the logger's own level and the
\* process-wide level are changed and a process-wide sink may be attached
LevelNext ==
    /\ UNCHANGED <<counter_vars, reg_vars, log_vars, tr_vars,
                 amb_vars, hdr_vars, mem_vars, hist_vars,
                 tm_vars,
                 gauge_vars,
                 prop_vars,
                 sgl_vars,
                 exp_vars>>
    /\ \/ \E level \in Opt(LogLevels) : Logger_set_level(level)
       \/ \E level \in LogLevels : Logger_set_global_level(level)
       \/ /\ lg_sinks = <<>>
          /\ LogHandler_new(DEBUG, "none")
       \/ /\ lg_global_handlers = <<>>
          /\ \E h \in DOMAIN lg_sinks : Logger_add_global_handler(h)
       \/ /\ lg_calls < MaxLogCalls
          /\ \E level \in LogLevels :
                ObservabilityLogger_log(MainThread, level, EmptyDict)

SpecLevel == Init /\ [][LevelNext]_vars

\* extra fields a caller sets in LogContext or passes to a log call
LogExtraKeys == {"user", "action"}
LogExtraDicts == UNION {[D -> ExtraVals] : D \in SUBSET LogExtraKeys}

\* one thread setting ambient extra fields and logging with extra fields, no
\* handler attached
ExtraNext ==
    /\ UNCHANGED <<counter_vars, reg_vars, tr_vars, amb_vars,
                 hdr_vars, mem_vars, hist_vars,
                 tm_vars,
                 gauge_vars,
                 prop_vars,
                 sgl_vars,
                 exp_vars>>
    /\ \/ /\ UNCHANGED lg_vars
          /\ \E k \in LogExtraKeys, v \in ExtraVals :
                LogContext_set_extra(MainThread, k, v)
       \/ /\ UNCHANGED log_vars
          /\ lg_calls < MaxLogCalls
          /\ \E extra \in LogExtraDicts :
                ObservabilityLogger_log(MainThread, INFO, extra)

SpecExtra == Init /\ [][ExtraNext]_vars

\* one thread logging at INFO while working handlers, with a level of DEBUG
\* or WARN, are constructed and attached to the logger or process-wide, a
\* handler possibly more than once
FanoutNext ==
    /\ UNCHANGED <<counter_vars, reg_vars, log_vars, tr_vars,
                 amb_vars, hdr_vars, mem_vars, hist_vars,
                 tm_vars,
                 gauge_vars,
                 prop_vars,
                 sgl_vars,
                 exp_vars>>
    /\ \/ /\ Len(lg_sinks) < MaxSinks
          /\ \E level \in {DEBUG, WARN} : LogHandler_new(level, "none")
       \/ /\ Logger_attached < MaxSinks
          /\ \E h \in DOMAIN lg_sinks : Logger_add_handler(h)
       \/ /\ Logger_attached < MaxSinks
          /\ \E h \in DOMAIN lg_sinks : Logger_add_global_handler(h)
       \/ /\ lg_calls < MaxLogCalls
          /\ ObservabilityLogger_log(MainThread, INFO, EmptyDict)

SpecFanout == Init /\ [][FanoutNext]_vars

\* one thread logging at INFO while handlers that work, raise an Exception
\* or raise a BaseException are constructed and attached
SinkFailureNext ==
    /\ UNCHANGED <<counter_vars, reg_vars, log_vars, tr_vars,
                 amb_vars, hdr_vars, mem_vars, hist_vars,
                 tm_vars,
                 gauge_vars,
                 prop_vars,
                 sgl_vars,
                 exp_vars>>
    /\ \/ /\ Len(lg_sinks) < MaxSinks
          /\ \E fault \in SinkFaults : LogHandler_new(DEBUG, fault)
       \/ /\ Logger_attached < MaxSinks
          /\ \E h \in DOMAIN lg_sinks : Logger_add_handler(h)
       \/ /\ Logger_attached < MaxSinks
          /\ \E h \in DOMAIN lg_sinks : Logger_add_global_handler(h)
       \/ /\ lg_calls < MaxLogCalls
          /\ ObservabilityLogger_log(MainThread, INFO, EmptyDict)

SpecSinkFailure == Init /\ [][SinkFailureNext]_vars

\* threads emitting to a MemoryHandler constructed with a max_entries of
\* 0..MaxCapacity
RingNext ==
    /\ UNCHANGED <<counter_vars, reg_vars, log_vars, tr_vars,
                 amb_vars, hdr_vars, lg_vars, hist_vars,
                 tm_vars,
                 gauge_vars,
                 prop_vars,
                 sgl_vars,
                 exp_vars>>
    /\ \/ \E max_entries \in 0..MaxCapacity : MemoryHandler_init(max_entries)
       \/ \E t \in Threads :
             \/ /\ Len(mem_accepted) < MaxEmits
                /\ MemoryHandler_emit_acquire(t)
             \/ MemoryHandler_emit_append(t)
             \/ MemoryHandler_emit_truncate(t)

SpecRing == Init /\ [][RingNext]_vars

\* one thread observing values and asking for percentiles
PercentileNext ==
    /\ UNCHANGED <<counter_vars, reg_vars, log_vars, tr_vars,
                 amb_vars, hdr_vars, lg_vars, mem_vars,
                 tm_vars,
                 gauge_vars,
                 prop_vars,
                 sgl_vars,
                 exp_vars>>
    /\ \E t \in {MainThread} :
          \/ /\ Len(hist_calls) < MaxObservations
             /\ \E value \in ObservedValues :
                   Histogram_observe_acquire(t, value)
          \/ Histogram_observe_value(t)
          \/ Histogram_observe_timestamp(t)
          \/ /\ hist_pc[t] = "idle"
             /\ \E p \in Percentiles :
                   Histogram_read("get_percentile", p,
                       Histogram_get_percentile(hist_values, p))

SpecPercentile == Init /\ [][PercentileNext]_vars

\* one thread constructing a histogram with a list of boundaries (empty,
\* unordered and repeating lists too), observing values and reading the
\* bucket counts
BucketsNext ==
    /\ UNCHANGED <<counter_vars, reg_vars, log_vars, tr_vars,
                 amb_vars, hdr_vars, lg_vars, mem_vars,
                 tm_vars,
                 gauge_vars,
                 prop_vars,
                 sgl_vars,
                 exp_vars>>
    /\ \E t \in {MainThread} :
          \/ \E buckets \in BucketLists : Histogram_new(buckets)
          \/ /\ Len(hist_calls) < MaxObservations
             /\ \E value \in ObservedValues :
                   Histogram_observe_acquire(t, value)
          \/ Histogram_observe_value(t)
          \/ Histogram_observe_timestamp(t)
          \/ /\ hist_pc[t] = "idle"
             /\ Histogram_read("get_bucket_counts", 0,
                   Histogram_get_bucket_counts(hist_values, hist_buckets))

SpecBuckets == Init /\ [][BucketsNext]_vars

\* threads observing values while the statistics and the export are read
HistogramNext ==
    /\ UNCHANGED <<counter_vars, reg_vars, log_vars, tr_vars,
                 amb_vars, hdr_vars, lg_vars, mem_vars,
                 tm_vars,
                 gauge_vars,
                 prop_vars,
                 sgl_vars,
                 exp_vars>>
    /\ \/ \E t \in Threads :
             \/ /\ Len(hist_calls) < MaxObservations
                /\ \E value \in ObservedValues :
                      Histogram_observe_acquire(t, value)
             \/ Histogram_observe_value(t)
             \/ Histogram_observe_timestamp(t)
       \/ Histogram_read("get_count", 0,
             Returned(Histogram_get_count(hist_values)))
       \/ Histogram_read("get_sum", 0,
             Returned(Histogram_get_sum(hist_values)))
       \/ Histogram_read("get_mean", 0, Histogram_get_mean(hist_values))
       \/ Histogram_read("to_dict", 0,
             Returned(Histogram_to_dict(hist_values, hist_buckets)))

SpecHistogram == Init /\ [][HistogramNext]_vars

\* one thread using the Timer: plain start() and stop() calls and time()
\* blocks, nested or not, left normally or by a fault
TimerNext ==
    /\ UNCHANGED <<counter_vars, reg_vars, log_vars, tr_vars,
                 amb_vars, hdr_vars, lg_vars, mem_vars,
                 gauge_vars,
                 prop_vars,
                 sgl_vars,
                 exp_vars>>
    /\ \E t \in {MainThread} :
          \/ /\ Len(tm_trace) < MaxTimerCalls
             /\ \/ Timer_start(t)
                \/ Timer_stop(t)
                \/ Len(tm_blocks[t]) < MaxDepth /\ Timer_time_enter(t)
          \/ \E fault \in Faults : Timer_time_exit(t, fault)
          \/ Timer_stop_read(t)
          \/ Timer_stop_observe(t)
          \/ Timer_stop_clear(t)

SpecTimer == Init /\ [][TimerNext]_vars

\* the last call thread t made on the timer was a start() that returned
Timer_own_start(t) ==
    LET own == {i \in DOMAIN tm_trace : tm_trace[i].thread = t}
    IN /\ own # {}
       /\ tm_trace[CHOOSE i \in own : \A j \in own : j <= i].op = "start"

\* threads sharing one Timer: each thread calls start() and then stop(), or
\* runs a time() block, never nesting its own calls
TimerSharedNext ==
    /\ UNCHANGED <<counter_vars, reg_vars, log_vars, tr_vars,
                 amb_vars, hdr_vars, lg_vars, mem_vars,
                 gauge_vars,
                 prop_vars,
                 sgl_vars,
                 exp_vars>>
    /\ \E t \in Threads :
          \/ /\ Len(tm_trace) < MaxTimerCalls
             /\ ~Timer_own_start(t)
             /\ \/ Timer_start(t)
                \/ Timer_time_enter(t)
          \/ /\ Timer_own_start(t)
             /\ tm_blocks[t] = <<>>
             /\ Timer_stop(t)
          \/ \E fault \in Faults : Timer_time_exit(t, fault)
          \/ Timer_stop_read(t)
          \/ Timer_stop_observe(t)
          \/ Timer_stop_clear(t)

SpecTimerShared == Init /\ [][TimerSharedNext]_vars

\* threads calling set / inc / dec on the shared Gauge, or observe on the
\* shared Histogram; a run drives one of the two metrics, which share no
\* state
MutatorsNext ==
    /\ UNCHANGED <<counter_vars, reg_vars, log_vars, tr_vars,
                 amb_vars, hdr_vars, lg_vars, mem_vars, tm_vars,
                 prop_vars,
                 sgl_vars,
                 exp_vars>>
    /\ \E t \in Threads :
          \/ /\ UNCHANGED hist_vars
             /\ hist_calls = <<>>
             /\ \/ /\ SumOver([u \in Threads |-> Len(gauge_begun[u])],
                              Threads) < MaxGaugeCalls
                   /\ \E call \in GaugeCalls : Gauge_acquire(t, call)
                \/ Gauge_load(t)
                \/ Gauge_store(t)
                \/ Gauge_release(t)
          \/ /\ UNCHANGED gauge_vars
             /\ \A u \in Threads : gauge_begun[u] = <<>>
             /\ \/ /\ Len(hist_calls) < MaxObservations
                   /\ \E value \in ObservedValues :
                         Histogram_observe_acquire(t, value)
                \/ Histogram_observe_value(t)
                \/ Histogram_observe_timestamp(t)

SpecMutators == Init /\ [][MutatorsNext]_vars

\* threads starting spans; once, one of them injects its context into a
\* header, one extracts the header and one starts a span from what was
\* extracted; the span whose context was injected may be ended meanwhile
PropagateNext ==
    /\ UNCHANGED <<counter_vars, reg_vars, log_vars, amb_vars,
                 lg_vars, mem_vars, hist_vars, tm_vars, gauge_vars,
                 sgl_vars,
                 exp_vars>>
    /\ \E t \in Threads :
          \/ /\ Len(tr_spans) < MaxSpans
             /\ Tracer_start_span_begin(t, "op", NoneVal, FALSE)
             /\ UNCHANGED <<hdr_vars, prop_vars>>
          \/ /\ \/ Tracer_start_span_acquire(t)
                \/ Tracer_start_span_register(t)
                \/ Tracer_start_span_return(t)
                \/ \E s \in Tracer_own(t) :
                      /\ ~IsNone(prop_inject)
                      /\ Some(s) = prop_inject[1].active
                      /\ IsNone(tr_spans[s].end_time)
                      /\ Span_end_begin(t, s, NoneVal)
                \/ Span_end_complete(t)
             /\ UNCHANGED <<hdr_vars, prop_vars>>
          \/ Tracer_inject_context(t)
          \/ Tracer_extract_injected(t)
          \/ /\ Len(tr_spans) < MaxSpans
             /\ ~IsNone(hdr_extracted)
             /\ ~hdr_extracted[1].error
             /\ ~IsNone(hdr_extracted[1].context)
             /\ Tracer_start_span_from_context_begin(
                   t, "op", hdr_extracted[1].context[1])

SpecPropagate == Init /\ [][PropagateNext]_vars

\* threads construct MetricsCollector() and Tracer() concurrently and use the
\* object once their own construction has returned it: a counter is
\* registered through the collector, a span is started through the tracer
SingletonNext ==
    /\ UNCHANGED <<counter_vars, log_vars, amb_vars, hdr_vars, lg_vars,
                   mem_vars, hist_vars, tm_vars, gauge_vars, prop_vars,
                   exp_vars>>
    /\ \E t \in Threads :
          \/ /\ sgl_calls[t] < MaxConstructs
             /\ reg_pc[t] = "idle" /\ tr_pc[t] = "idle"
             /\ \E c \in Classes : Singleton_new(t, c)
             /\ UNCHANGED <<reg_vars, tr_vars>>
          \/ /\ \/ Singleton_new_acquire(t)
                \/ Singleton_new_create(t)
                \/ Singleton_new_flag(t)
                \/ Singleton_new_release(t)
                \/ Singleton_new_return(t)
                \/ Singleton_init_check(t)
             /\ UNCHANGED <<reg_vars, tr_vars>>
          \/ Singleton_init_body(t)
          \/ /\ Singleton_init_flag(t)
             /\ UNCHANGED <<reg_vars, tr_vars>>
          \/ /\ sgl_pc[t] = "idle"
             /\ sgl_handle[t]["MetricsCollector"] # 0
             /\ tr_pc[t] = "idle"
             /\ \/ /\ reg_calls < MaxConstructs
                   /\ Registry_check(t, "counter", "a",
                         [description |-> "", labels |-> NoneVal,
                          buckets |-> NoneVal])
                \/ Registry_create(t)
                \/ Registry_return(t)
             /\ UNCHANGED <<tr_vars, sgl_vars>>
          \/ /\ sgl_pc[t] = "idle"
             /\ sgl_handle[t]["Tracer"] # 0
             /\ reg_pc[t] = "idle"
             /\ \/ /\ Len(tr_spans) < MaxConstructs
                   /\ Tracer_start_span_begin(t, "op", NoneVal, FALSE)
                \/ Tracer_start_span_acquire(t)
                \/ Tracer_start_span_register(t)
                \/ Tracer_start_span_register_missing(t)
                \/ Tracer_start_span_return(t)
             /\ UNCHANGED <<reg_vars, sgl_vars>>

SpecSingleton == Init /\ [][SingletonNext]_vars

\* threads observing values while one context exports the histogram
ExportNext ==
    /\ UNCHANGED <<counter_vars, reg_vars, log_vars, tr_vars, amb_vars,
                   hdr_vars, lg_vars, mem_vars, tm_vars, gauge_vars,
                   prop_vars, sgl_vars>>
    /\ \/ /\ \E t \in Threads :
                \/ /\ Len(hist_calls) < MaxObservations
                   /\ \E value \in ObservedValues :
                         Histogram_observe_acquire(t, value)
                \/ Histogram_observe_value(t)
                \/ Histogram_observe_timestamp(t)
          /\ UNCHANGED exp_vars
       \/ /\ \/ Histogram_to_dict_count
             \/ Histogram_to_dict_sum
             \/ Histogram_to_dict_buckets
             \/ Histogram_to_dict_values
          /\ UNCHANGED hist_vars

SpecExport == Init /\ [][ExportNext]_vars

\* one thread logging while it starts and ends spans; it may copy a span's
\* ids into LogContext, as a caller has to do by hand
StampNext ==
    /\ UNCHANGED <<counter_vars, reg_vars, amb_vars, hdr_vars,
                 lg_vars, mem_vars, hist_vars,
                 tm_vars,
                 gauge_vars,
                 prop_vars,
                 sgl_vars,
                 exp_vars>>
    /\ \E t \in {MainThread} :
          \/ /\ UNCHANGED log_vars
             /\ \/ /\ Len(tr_spans) < MaxSpans
                   /\ \E name \in SpanNames :
                         Tracer_start_span_begin(t, name, NoneVal, FALSE)
                \/ Tracer_start_span_acquire(t)
                \/ Tracer_start_span_register(t)
                \/ Tracer_start_span_return(t)
                \/ \E s \in Tracer_own(t) :
                      /\ IsNone(tr_spans[s].end_time)
                      /\ Span_end_begin(t, s, NoneVal)
                \/ Span_end_complete(t)
          \/ /\ UNCHANGED tr_vars
             /\ tr_pc[t] = "idle"
             /\ \/ \E s \in Tracer_own(t) :
                      LogContext_set_trace_id(t, tr_spans[s].context.trace_id)
                \/ \E s \in Tracer_own(t) :
                      LogContext_set_span_id(t, tr_spans[s].context.span_id)
                \/ /\ Len(log_entries) < MaxEntries
                   /\ Logger_log(t, "root", INFO, "m", EmptyDict)

SpecStamp == Init /\ [][StampNext]_vars

\* one thread using LogContext: setters, clear, and nested scope blocks left
\* normally or by an exception
ScopeNext ==
    /\ UNCHANGED <<counter_vars, reg_vars, tr_vars, amb_vars,
                 hdr_vars, lg_vars, mem_vars, hist_vars,
                 tm_vars,
                 gauge_vars,
                 prop_vars,
                 sgl_vars,
                 exp_vars>>
    /\ \E t \in {MainThread} :
          \/ \E v \in CorrelationIds : LogContext_set_correlation_id(t, v)
          \/ \E v \in TraceIds : LogContext_set_trace_id(t, v)
          \/ \E v \in SpanIds : LogContext_set_span_id(t, v)
          \/ \E k \in ExtraKeys, v \in ExtraVals : LogContext_set_extra(t, k, v)
          \/ LogContext_clear(t)
          \/ /\ Len(log_frames[t]) < MaxDepth
             /\ \E cid \in Opt(CorrelationIds), tid \in Opt(TraceIds),
                   sid \in Opt(SpanIds), extra \in ExtraDicts :
                   LogContext_scope_capture(t, cid, tid, sid, extra)
          \/ LogContext_scope_apply(t)
          \/ \E raised \in BOOLEAN : LogContext_scope_exit(t, raised)
          \/ LogContext_caught(t)

SpecScope == Init /\ [][ScopeNext]_vars

\* one thread logging under correlation scopes: only the correlation id is
\* set and overridden
EmitNext ==
    /\ UNCHANGED <<counter_vars, reg_vars, tr_vars, amb_vars,
                 hdr_vars, lg_vars, mem_vars, hist_vars,
                 tm_vars,
                 gauge_vars,
                 prop_vars,
                 sgl_vars,
                 exp_vars>>
    /\ \E t \in {MainThread} :
          \/ \E v \in CorrelationIds : LogContext_set_correlation_id(t, v)
          \/ /\ Len(log_frames[t]) < MaxDepth
             /\ \E cid \in Opt(CorrelationIds) :
                   LogContext_scope_capture(t, cid, NoneVal, NoneVal, EmptyDict)
          \/ LogContext_scope_apply(t)
          \/ \E raised \in BOOLEAN : LogContext_scope_exit(t, raised)
          \/ LogContext_caught(t)
          \/ /\ Len(log_entries) < MaxEntries
             /\ Logger_log(t, "root", INFO, "m", EmptyDict)

SpecEmit == Init /\ [][EmitNext]_vars

\* updates made through handles so far
Registry_updates_made ==
    SumOver([k \in Kinds |-> SumOver(reg_updates[k], Names)], Kinds)

\* one step of thread t in the registry: a get-or-create call, or an update
\* through the handle it holds
RegistryStep(t) ==
    \/ /\ reg_calls < MaxRegCalls
       /\ \E k \in Kinds, n \in Names, b \in ArgBundles : Registry_check(t, k, n, b)
    \/ Registry_create(t)
    \/ Registry_return(t)
    \/ Registry_updates_made < MaxUpdates /\ Metric_update(t)

\* threads call the registry concurrently
RegistryNext ==
    /\ UNCHANGED <<counter_vars, log_vars, tr_vars, amb_vars,
                 hdr_vars, lg_vars, mem_vars, hist_vars,
                 tm_vars,
                 gauge_vars,
                 prop_vars,
                 sgl_vars,
                 exp_vars>>
    /\ \E t \in Threads : RegistryStep(t)

SpecRegistry == Init /\ [][RegistryNext]_vars

\* one thread calls the registry: no two calls overlap
RegistrySeqNext ==
    /\ UNCHANGED <<counter_vars, log_vars, tr_vars, amb_vars,
                 hdr_vars, lg_vars, mem_vars, hist_vars,
                 tm_vars,
                 gauge_vars,
                 prop_vars,
                 sgl_vars,
                 exp_vars>>
    /\ RegistryStep(MainThread)

SpecRegistrySeq == Init /\ [][RegistrySeqNext]_vars

\* N threads, each calling counter.inc(1) MaxCalls times
CounterIncNext ==
    /\ UNCHANGED <<reg_vars, log_vars, tr_vars, amb_vars,
                 hdr_vars, lg_vars, mem_vars, hist_vars,
                 tm_vars,
                 gauge_vars,
                 prop_vars,
                 sgl_vars,
                 exp_vars>>
    /\ \E t \in Threads :
          \/ counter_calls[t] < MaxCalls /\ Counter_inc_acquire(t, 1)
          \/ Counter_inc_load(t)
          \/ Counter_inc_store(t)
          \/ Counter_inc_release(t)

SpecCounterInc == Init /\ [][CounterIncNext]_vars

\* calls on the counter begun so far: those returned and those in flight
Counter_calls_begun ==
    SumOver(counter_calls, Threads)
      + Cardinality({t \in Threads : counter_pc[t] # "idle"})

\* N threads calling inc(amount) or reset(), MaxOps calls in all
CounterNext ==
    /\ UNCHANGED <<reg_vars, log_vars, tr_vars, amb_vars,
                 hdr_vars, lg_vars, mem_vars, hist_vars,
                 tm_vars,
                 gauge_vars,
                 prop_vars,
                 sgl_vars,
                 exp_vars>>
    /\ \E t \in Threads :
          \/ /\ Counter_calls_begun < MaxOps
             /\ \E a \in Amounts : Counter_inc_acquire(t, a)
          \/ Counter_inc_load(t)
          \/ Counter_inc_store(t)
          \/ Counter_inc_release(t)
          \/ Counter_calls_begun < MaxOps /\ Counter_reset_acquire(t)
          \/ Counter_reset_store(t)
          \/ Counter_reset_release(t)

SpecCounter == Init /\ [][CounterNext]_vars

\* thread t is inside an operation of the core
Core_busy(t) ==
    \/ counter_pc[t] # "idle"
    \/ gauge_pc[t] # "idle"
    \/ hist_pc[t] # "idle"
    \/ mem_pc[t] # "idle"
    \/ tr_pc[t] # "idle"
    \/ reg_pc[t] # "idle"

\* the locks of the core that thread t holds
Core_held(t) ==
    {lock \in {"counter", "gauge", "histogram", "memory", "tracer"} :
        t = CASE lock = "counter" -> counter_lock
              [] lock = "gauge" -> gauge_lock
              [] lock = "histogram" -> hist_lock
              [] lock = "memory" -> mem_lock
              [] lock = "tracer" -> tr_lock}

\* operations begun so far
Core_begun ==
    Counter_calls_begun
      + SumOver([u \in Threads |-> Len(gauge_begun[u])], Threads)
      + Len(hist_calls)
      + Len(mem_accepted) + Cardinality({u \in Threads : mem_pc[u] = "append"})
      + Len(tr_spans)
      + reg_calls

\* thread t, inside no operation, begins one: a metric mutator, a registry
\* lookup, a span start or end, a log emission to the memory sink, a snapshot
Core_begin(t) ==
    /\ ~Core_busy(t)
    /\ \/ /\ Core_begun < MaxCoreCalls
          /\ \/ /\ Counter_inc_acquire(t, 1)
                /\ UNCHANGED <<gauge_vars, hist_vars, mem_vars, tr_vars,
                               reg_vars>>
             \/ /\ Gauge_acquire(t, [op |-> "inc", arg |-> 1])
                /\ UNCHANGED <<counter_vars, hist_vars, mem_vars, tr_vars,
                               reg_vars>>
             \/ /\ Histogram_observe_acquire(t, 0)
                /\ UNCHANGED <<counter_vars, gauge_vars, mem_vars, tr_vars,
                               reg_vars>>
             \/ /\ MemoryHandler_emit_acquire(t)
                /\ UNCHANGED <<counter_vars, gauge_vars, hist_vars, tr_vars,
                               reg_vars>>
             \/ /\ Tracer_start_span_begin(t, "op", NoneVal, FALSE)
                /\ UNCHANGED <<counter_vars, gauge_vars, hist_vars, mem_vars,
                               reg_vars>>
             \/ /\ Registry_check(t, "counter", "a",
                                  [description |-> "", labels |-> NoneVal,
                                   buckets |-> NoneVal])
                /\ UNCHANGED <<counter_vars, gauge_vars, hist_vars, mem_vars,
                               tr_vars>>
       \/ /\ \E s \in Tracer_own(t) :
                /\ IsNone(tr_spans[s].end_time)
                /\ Span_end_begin(t, s, NoneVal)
          /\ UNCHANGED <<counter_vars, gauge_vars, hist_vars, mem_vars,
                         reg_vars>>
       \/ /\ IsNone(hist_query)
          /\ Histogram_read("to_dict", 0,
                Returned(Histogram_to_dict(hist_values, hist_buckets)))
          /\ UNCHANGED <<counter_vars, gauge_vars, mem_vars, tr_vars,
                         reg_vars>>

\* thread t takes the next step of the operation it is inside
Core_continue(t) ==
    \/ /\ \/ Counter_inc_load(t)
          \/ Counter_inc_store(t)
          \/ Counter_inc_release(t)
       /\ UNCHANGED <<gauge_vars, hist_vars, mem_vars, tr_vars, reg_vars>>
    \/ /\ \/ Gauge_load(t)
          \/ Gauge_store(t)
          \/ Gauge_release(t)
       /\ UNCHANGED <<counter_vars, hist_vars, mem_vars, tr_vars, reg_vars>>
    \/ /\ \/ Histogram_observe_value(t)
          \/ Histogram_observe_timestamp(t)
       /\ UNCHANGED <<counter_vars, gauge_vars, mem_vars, tr_vars, reg_vars>>
    \/ /\ \/ MemoryHandler_emit_append(t)
          \/ MemoryHandler_emit_truncate(t)
       /\ UNCHANGED <<counter_vars, gauge_vars, hist_vars, tr_vars, reg_vars>>
    \/ /\ \/ Tracer_start_span_acquire(t)
          \/ Tracer_start_span_register(t)
          \/ Tracer_start_span_return(t)
          \/ Span_end_complete(t)
       /\ UNCHANGED <<counter_vars, gauge_vars, hist_vars, mem_vars,
                      reg_vars>>
    \/ /\ \/ Registry_create(t)
          \/ Registry_return(t)
       /\ UNCHANGED <<counter_vars, gauge_vars, hist_vars, mem_vars,
                      tr_vars>>

\* threads using the parts of the core side by side, one operation at a time
\* each
CoreNext ==
    /\ UNCHANGED <<log_vars, amb_vars, hdr_vars, lg_vars, tm_vars,
                 prop_vars,
                 sgl_vars,
                 exp_vars>>
    /\ \E t \in Threads :
          \/ Core_begin(t)
          \/ Core_continue(t)

\* the scheduler lets every thread that can take a step take one
SpecCore ==
    /\ Init
    /\ [][CoreNext]_vars
    /\ \A t \in Threads :
          WF_vars(Core_continue(t)
                  /\ UNCHANGED <<log_vars, amb_vars, hdr_vars, lg_vars,
                                 tm_vars, prop_vars, sgl_vars,
                                 exp_vars>>)

\* ----------------------------------------------------------- Counter claims

\* C1: when each of the N threads has made its M calls of inc(1) and all of
\* them have returned, get() is N*M; and at every moment at which no call is
\* in flight get() is the number of inc(1) calls that have returned, so no
\* interleaving loses an update.
C1_NoLostUpdate ==
    /\ (\A t \in Threads : counter_calls[t] = MaxCalls /\ counter_pc[t] = "idle")
          => Counter_get = NThreads * MaxCalls
    /\ (\A t \in Threads : counter_pc[t] = "idle")
          => Counter_get = SumOver(counter_calls, Threads)

\* every thread has finished its M calls
C1_Witness ==
    /\ \A t \in Threads : counter_calls[t] = MaxCalls /\ counter_pc[t] = "idle"
    /\ Counter_get = NThreads * MaxCalls

Registry_constructed(k, n) ==
    {i \in 1..Len(reg_inst) : reg_inst[i].kind = k /\ reg_inst[i].name = n}

\* C3: get-or-create is thread-safe: callers of the same (kind, name) all
\* hold the same instance, only one instance is ever registered under the
\* name, and every update made through a returned handle shows in the
\* snapshot.
C3_ThreadSafeGetOrCreate ==
    /\ \A k \in Kinds, n \in Names : Cardinality(Registry_constructed(k, n)) <= 1
    /\ \A t, u \in Threads :
          (/\ reg_handle[t] # 0 /\ reg_handle[u] # 0
           /\ reg_inst[reg_handle[t]].kind = reg_inst[reg_handle[u]].kind
           /\ reg_inst[reg_handle[t]].name = reg_inst[reg_handle[u]].name)
             => reg_handle[t] = reg_handle[u]
    /\ \A k \in Kinds : \A n \in DOMAIN Registry_collect_all(k) :
          Registry_collect_all(k)[n].value = reg_updates[k][n]

\* C4, in every state: one instance per (kind, name); a handle returned for
\* (kind, name) is the registered instance; the snapshot has one entry per
\* registered name, the entry of the instance registered under it.
C4_OneInstancePerName ==
    /\ \A k \in Kinds, n \in Names :
          /\ Cardinality(Registry_constructed(k, n)) <= 1
          /\ (n \in DOMAIN Registry_collect_all(k)) <=>
                (Registry_constructed(k, n) # {})
          /\ n \in DOMAIN Registry_collect_all(k) =>
                /\ Registry_collect_all(k)[n].name = n
                /\ Registry_collect_all(k)[n].kind = k
                /\ Registry_collect_all(k)[n].value = reg_updates[k][n]
    /\ \A t \in Threads : reg_handle[t] # 0 =>
          reg_handle[t] =
             reg_table[reg_inst[reg_handle[t]].kind][reg_inst[reg_handle[t]].name]

\* C4, in every step: a registered instance is never replaced, and no call
\* changes an existing instance: description, labels and buckets stay as the
\* first call set them, and the value moves only with an update through a
\* handle.
C4_InstanceKept ==
    /\ \A k \in Kinds, n \in Names :
          reg_table[k][n] # 0 => reg_table'[k][n] = reg_table[k][n]
    /\ \A i \in 1..Len(reg_inst) :
          /\ Len(reg_inst') >= i
          /\ reg_inst'[i].kind = reg_inst[i].kind
          /\ reg_inst'[i].name = reg_inst[i].name
          /\ reg_inst'[i].description = reg_inst[i].description
          /\ reg_inst'[i].labels = reg_inst[i].labels
          /\ reg_inst'[i].buckets = reg_inst[i].buckets
          /\ \/ reg_inst'[i].value = reg_inst[i].value
             \/ /\ reg_inst'[i].value = reg_inst[i].value + 1
                /\ reg_updates' # reg_updates

\* C4: get-or-create is idempotent, keyed by name within each kind: a later
\* call for a registered name returns the instance the first call created,
\* unchanged, whatever description, labels or buckets it passes, and the
\* snapshot holds one entry per registered name per kind.
C4_IdempotentGetOrCreate ==
    [][C4_InstanceKept /\ C4_OneInstancePerName']_vars

\* a second call, passing another description and labels, is about to return
\* the instance the first call registered and returned, updated since
C4_Witness ==
    \E t \in Threads :
       /\ reg_pc[t] = "return"
       /\ LET k == reg_args[t].kind
              n == reg_args[t].name
              i == reg_table[k][n]
          IN /\ i # 0
             /\ reg_inst[i].description # reg_args[t].description
             /\ reg_inst[i].labels # OrDefault(reg_args[t].labels, {}, {})
             /\ reg_inst[i].value > 0
             /\ reg_handle[t] = i

\* -------------------------------------------------------- LogContext claims

\* thread t leaves its innermost scope block in this step
ScopeExits(t) == Len(log_frames'[t]) < Len(log_frames[t])

\* thread t finishes entering a scope block in this step
ScopeApplies(t) ==
    /\ log_frames[t] # <<>>
    /\ log_frames[t][Len(log_frames[t])].entering
    /\ Len(log_frames'[t]) = Len(log_frames[t])
    /\ ~log_frames'[t][Len(log_frames[t])].entering

\* the ambient values scope() captured when the innermost block was entered
ScopeEntryValues(t) ==
    LET f == log_frames[t][Len(log_frames[t])] IN
    [correlation_id |-> f.old_correlation, trace_id |-> f.old_trace,
     span_id |-> f.old_span, extra |-> f.old_extra]

\* C5: when a scope block is left, normally or by an exception, correlation
\* id, trace id, span id and the extra map are again what they were when the
\* block was entered, whatever they were (absent or any string) and whatever
\* was overridden or set inside.
C5_ScopeRestoresExactly ==
    [][\A t \in Threads :
          ScopeExits(t) => log_ctx'[t] = ScopeEntryValues(t)]_vars

\* C6: scopes nest: entering an inner block inside an outer one gives the
\* outer values with the inner overrides applied (an argument left out keeps
\* the outer value, a non-empty one replaces it, the keyword extras are laid
\* over the outer extras), and leaving the inner block gives back exactly
\* the values the outer block had, ids and extra map.
C6_ScopesNest ==
    [][\A t \in Threads :
          /\ (ScopeApplies(t) /\ Len(log_frames[t]) >= 2) =>
                LET f == log_frames[t][Len(log_frames[t])]
                IN  /\ LET a == f.correlation_id
                           o == log_ctx[t].correlation_id
                           n == log_ctx'[t].correlation_id
                       IN (IsNone(a) => n = o) /\ (Truthy(a) => n = a)
                    /\ LET a == f.trace_id
                           o == log_ctx[t].trace_id
                           n == log_ctx'[t].trace_id
                       IN (IsNone(a) => n = o) /\ (Truthy(a) => n = a)
                    /\ LET a == f.span_id
                           o == log_ctx[t].span_id
                           n == log_ctx'[t].span_id
                       IN (IsNone(a) => n = o) /\ (Truthy(a) => n = a)
                    /\ log_ctx'[t].extra = DictMerge(log_ctx[t].extra, f.extra)
          /\ (ScopeExits(t) /\ Len(log_frames[t]) >= 2) =>
                log_ctx'[t] = ScopeEntryValues(t)]_vars

\* thread t appends a log entry in this step
Emits == Len(log_entries') = Len(log_entries) + 1

\* C7: an emitted entry carries the correlation id ambient in the emitting
\* context at the moment of the call; a scope entered with a non-empty
\* correlation id makes that id ambient, and leaving a scope entered under a
\* non-empty correlation id, normally or by an exception, makes the outer id
\* ambient again: so with "outer" set, an entry emitted inside a scope that
\* sets "inner" carries "inner" and one emitted after the scope carries
\* "outer".
C7_EntryCarriesAmbientId ==
    [][/\ Emits =>
            log_entries'[Len(log_entries')].correlation_id
               = log_ctx[MainThread].correlation_id
       /\ \A t \in Threads :
            /\ (ScopeApplies(t)
                  /\ Truthy(log_frames[t][Len(log_frames[t])].correlation_id)) =>
                 log_ctx'[t].correlation_id
                    = log_frames[t][Len(log_frames[t])].correlation_id
            /\ (ScopeExits(t)
                  /\ Truthy(log_frames[t][Len(log_frames[t])].old_correlation)) =>
                 log_ctx'[t].correlation_id
                    = log_frames[t][Len(log_frames[t])].old_correlation]_vars

\* "outer" was ambient and an entry carried it; inside a scope that set
\* "inner" an entry carried "inner"; the scope has been left by an exception
\* and "outer" is ambient again
C7_Witness ==
    /\ Len(log_entries) = 2
    /\ log_entries[1].correlation_id = Some("outer")
    /\ log_entries[2].correlation_id = Some("inner")
    /\ log_frames[MainThread] = <<>>
    /\ log_raising[MainThread]
    /\ log_ctx[MainThread].correlation_id = Some("outer")

\* ------------------------------------------------------------ Tracer claims

\* the span context of span i, and span i's place in the trace table
SpanContextOf(i) == tr_spans[i].context
InBucket(i, trace_id) ==
    /\ trace_id \in DOMAIN tr_traces
    /\ \E n \in DOMAIN tr_traces[trace_id] : tr_traces[trace_id][n] = i

\* C8: start_span resolves the parent in this order.  A span started with an
\* explicit parent argument is the child of that argument, also when the
\* caller's stack was not empty; a span started without one is the child of
\* the span that was on top of the caller's stack; a span started without
\* one on an empty stack has no parent span id and a trace id that no
\* earlier span has.
C8_ParentResolutionOrder ==
    \A i \in DOMAIN tr_spans :
        LET call == tr_calls[i]
            IsChildOf(p) ==
                /\ SpanContextOf(i).parent_span_id
                       = Some(SpanContextOf(p).span_id)
                /\ SpanContextOf(i).trace_id = SpanContextOf(p).trace_id
        IN /\ ~IsNone(call.explicit) => IsChildOf(call.explicit[1])
           /\ (IsNone(call.explicit) /\ ~IsNone(call.ambient))
                 => IsChildOf(call.ambient[1])
           /\ (IsNone(call.explicit) /\ IsNone(call.ambient))
                 => /\ IsNone(SpanContextOf(i).parent_span_id)
                    /\ \A j \in 1..(i - 1) :
                          SpanContextOf(j).trace_id # SpanContextOf(i).trace_id

\* start_span has returned a span whose explicit parent was not the span on
\* top of the caller's non-empty stack, and a span other than the first that
\* found neither
C8_Witness ==
    /\ \E i \in Tracer_handed_out :
          /\ ~IsNone(tr_calls[i].explicit)
          /\ ~IsNone(tr_calls[i].ambient)
          /\ tr_calls[i].explicit # tr_calls[i].ambient
          /\ SpanContextOf(i).parent_span_id
                = Some(SpanContextOf(tr_calls[i].explicit[1]).span_id)
    /\ \E j \in Tracer_handed_out :
          /\ j > 1
          /\ IsNone(tr_calls[j].explicit)
          /\ IsNone(tr_calls[j].ambient)
          /\ IsNone(SpanContextOf(j).parent_span_id)

\* the span from which span i descends through resolved parents
RECURSIVE Tracer_root(_)
Tracer_root(i) ==
    IF IsNone(tr_calls[i].parent) THEN i ELSE Tracer_root(tr_calls[i].parent[1])

C10_StatusOneShot ==
    [][\A i \in DOMAIN tr_spans :
          tr_spans[i].status \in {SpanStatus_OK, SpanStatus_ERROR}
              => tr_spans'[i].status = tr_spans[i].status]_vars

\* a thread leaves its innermost `with tracer.span(...)` block in this step;
\* the span of that block
ScopedExit(t) == Len(tr_scopes'[t]) < Len(tr_scopes[t])
ScopedSpan(t) == tr_scopes[t][Len(tr_scopes[t])]

\* C11: scoped span finalisation.  When a block run under Tracer.span is
\* left, its span has an end time; left normally with the status still
\* UNSET, the span is OK; left by a fault, whatever its kind, the span is
\* ERROR with error.type and error.message recorded, and that fault, not
\* another one and not none, goes on to the caller.
C11_ScopedSpanFinalised ==
    [][\A t \in Threads :
          ScopedExit(t) =>
              LET before == tr_spans[ScopedSpan(t)]
                  after == tr_spans'[ScopedSpan(t)]
                  fault == tr_raising'[t]
              IN /\ ~IsNone(after.end_time)
                 /\ (fault = "none" /\ before.status = SpanStatus_UNSET)
                       => after.status = SpanStatus_OK
                 /\ fault # "none"
                       => /\ after.status = SpanStatus_ERROR
                          /\ after.attributes.error_type = Some(fault)
                          /\ ~IsNone(after.attributes.error_message)
                 /\ ~Tracer_running(t) => fault = tr_raising[t]]_vars

\* C12: a span's end time, once set, is immutable.  In no step does the end
\* time of a span that has one change.
C12_EndTimeImmutable ==
    [][\A i \in DOMAIN tr_spans :
          ~IsNone(tr_spans[i].end_time)
              => tr_spans'[i].end_time = tr_spans[i].end_time]_vars

\* a thread calls Span.end in this step; the span it is called on
EndCall(t) == tr_pc[t] = "idle" /\ tr_pc'[t] = "end_lock"
EndedSpan(t) == tr_frame'[t].span

\* C13: ending a span twice fails loudly.  A call of end() on a span that
\* already has an end time raises to the caller and leaves the span, the
\* caller's stack and the completed list as they were.
C13_SecondEndFailsLoudly ==
    [][\A t \in Threads :
          (EndCall(t) /\ ~IsNone(tr_spans[EndedSpan(t)].end_time))
              => /\ ~Tracer_running(t)'
                 /\ tr_spans' = tr_spans
                 /\ tr_stack' = tr_stack
                 /\ tr_completed' = tr_completed
                 /\ Tracer_ends_begun' = Tracer_ends_begun]_vars

\* a thread's call of Span.end returns in this step
EndReturn(t) == tr_pc[t] = "end_lock" /\ tr_pc'[t] = "idle"

\* C14: ending the span on top of the caller's stack.  The call (end() or the
\* exit of the span's block, normal or by a fault) gives the span an end
\* time and pops that span: the caller's stack is again the stack it had
\* when the span was started, and its current span the span that was current
\* then.  The call appends the span once to the completed list before it
\* returns.
C14_EndOfTopSpan ==
    [][\A t \in Threads :
          /\ (/\ EndCall(t)
              /\ TracerContext_get_current_span(t) = Some(EndedSpan(t)))
                => /\ ~IsNone(tr_spans'[EndedSpan(t)].end_time)
                   /\ tr_stack'[t] = tr_calls[EndedSpan(t)].stack
                   /\ TracerContext_get_current_span(t)'
                          = tr_calls[EndedSpan(t)].ambient
          /\ EndReturn(t)
                => tr_completed' = Append(tr_completed, tr_frame[t].span)]_vars

\* a scoped span was started inside another one, a fault left both blocks,
\* both calls of end have returned: the stack is empty as before the outer
\* block and each span is in the completed list once
C14_Witness ==
    /\ tr_completed = <<2, 1>>
    /\ tr_calls[2].stack = <<1>>
    /\ tr_stack[MainThread] = <<>>
    /\ tr_scopes[MainThread] = <<>>
    /\ tr_pc[MainThread] = "idle"
    /\ tr_raising[MainThread] = "Exception"

\* a thread's call of start_span returns in this step; the span it returns,
\* and the bucket of that span after the step
StartReturn(t) == tr_pc[t] = "start_push" /\ tr_pc'[t] = "idle"
StartedSpan(t) == tr_frame[t].span
StartedBucket(t) ==
    IF SpanContextOf(StartedSpan(t)).trace_id \in DOMAIN tr_traces'
    THEN tr_traces'[SpanContextOf(StartedSpan(t)).trace_id] ELSE <<>>

\* what C15 says of the caller's stack and of the span's own fields when
\* start_span returns
StartedOnTopUnset(t) ==
    /\ TracerContext_get_current_span(t)' = Some(StartedSpan(t))
    /\ IsNone(tr_spans'[StartedSpan(t)].end_time)
    /\ tr_spans'[StartedSpan(t)].status = SpanStatus_UNSET

\* C15 as stated: when start_span returns S, S is the last element of the
\* bucket of its trace id, the top of the caller's stack, has no end time
\* and status UNSET, and its service.name is the configured service name.
C15_AfterStartSpan ==
    [][\A t \in Threads :
          StartReturn(t) =>
              /\ StartedBucket(t) # <<>>
              /\ StartedBucket(t)[Len(StartedBucket(t))] = StartedSpan(t)
              /\ StartedOnTopUnset(t)
              /\ tr_spans'[StartedSpan(t)].attributes.service_name
                     = Some(tr_service_name')]_vars

\* C15 amended: when start_span returns S, S is in the bucket of its trace
\* id once, followed there only by spans that other threads registered
\* meanwhile; S is the top of the caller's stack, has no end time and status
\* UNSET, and its service.name is the service name that was configured when
\* the call built the span.
C15_AfterStartSpanAmended ==
    [][\A t \in Threads :
          StartReturn(t) =>
              /\ \E n \in DOMAIN StartedBucket(t) :
                    /\ StartedBucket(t)[n] = StartedSpan(t)
                    /\ \A m \in DOMAIN StartedBucket(t) :
                          /\ m # n => StartedBucket(t)[m] # StartedSpan(t)
                          /\ m > n => tr_calls[StartedBucket(t)[m]].thread # t
              /\ StartedOnTopUnset(t)
              /\ tr_spans'[StartedSpan(t)].attributes.service_name
                     = Some(tr_calls[StartedSpan(t)].service_name)]_vars

\* start_span has returned a span to a thread that has it on top of its stack,
\* after another thread registered a span behind it in the bucket and
\* configured another service name
C15_Witness ==
    \E i \in Tracer_handed_out :
        LET t == tr_calls[i].thread
            bucket == tr_traces[SpanContextOf(i).trace_id]
        IN /\ TracerContext_get_current_span(t) = Some(i)
           /\ tr_spans[i].status = SpanStatus_UNSET
           /\ bucket[Len(bucket)] # i
           /\ tr_calls[bucket[Len(bucket)]].thread # t
           /\ tr_spans[i].attributes.service_name # Some(tr_service_name)

\* every span in the trace table is in the bucket of its own trace id and in
\* no bucket twice, and every span handed out by start_span is in the table
RegisteredOnce ==
    /\ \A k \in DOMAIN tr_traces :
          \A n \in DOMAIN tr_traces[k] :
              /\ SpanContextOf(tr_traces[k][n]).trace_id = k
              /\ \A m \in DOMAIN tr_traces[k] :
                    m # n => tr_traces[k][m] # tr_traces[k][n]
    /\ \A i \in Tracer_handed_out : InBucket(i, SpanContextOf(i).trace_id)

\* C16: span registration is never lost or duplicated.  After every step,
\* each span handed out by start_span is in the trace table exactly once, in
\* the bucket of its own trace id, and no span is in it twice; and the step
\* leaves every bucket in the table with the spans it had, in their order, as
\* a prefix.
C16_RegistrationKept ==
    [][/\ RegisteredOnce'
       /\ \A k \in DOMAIN tr_traces :
             /\ k \in DOMAIN tr_traces'
             /\ Len(tr_traces'[k]) >= Len(tr_traces[k])
             /\ SubSeq(tr_traces'[k], 1, Len(tr_traces[k])) = tr_traces[k]]_vars

\* two threads have calls of start_span in flight that registered their spans
\* in one bucket, behind the span of the common parent, while a third span
\* of the run opened the trace
C16_Witness ==
    \E t1, t2 \in Threads :
        /\ t1 # t2
        /\ tr_pc[t1] = "start_push"
        /\ tr_pc[t2] = "start_push"
        /\ SpanContextOf(tr_frame[t1].span).trace_id
              = SpanContextOf(tr_frame[t2].span).trace_id
        /\ Len(tr_traces[SpanContextOf(tr_frame[t1].span).trace_id]) = 3
        /\ InBucket(tr_frame[t1].span, SpanContextOf(tr_frame[t1].span).trace_id)
        /\ InBucket(tr_frame[t2].span, SpanContextOf(tr_frame[t1].span).trace_id)

\* a span started without an explicit parent by a thread whose own stack was
\* empty has no parent and a trace id that no earlier span has
NoImplicitInheritance ==
    \A i \in DOMAIN tr_spans :
        (IsNone(tr_calls[i].explicit) /\ tr_calls[i].stack = <<>>)
            => /\ IsNone(SpanContextOf(i).parent_span_id)
               /\ \A j \in 1..(i - 1) :
                     SpanContextOf(j).trace_id # SpanContextOf(i).trace_id

\* C17: ambient state is local to a thread.  A step made by one thread
\* leaves every other thread's active-span stack and ambient correlation,
\* trace and span ids and extras as they were; and a span that a thread starts
\* without an explicit parent while its own stack is empty opens a new
\* trace, whatever spans other threads have active.
C17_AmbientStateIsLocal ==
    [][/\ \A b \in Threads :
             b # amb_actor' => /\ tr_stack'[b] = tr_stack[b]
                               /\ log_ctx'[b] = log_ctx[b]
       /\ NoImplicitInheritance']_vars

\* a thread has a span on its stack and ambient ids set; another thread,
\* whose ambient ids are still absent, has started a span of its own since,
\* which opened a second trace
C17_Witness ==
    \E a, b \in Threads :
        /\ a # b
        /\ tr_stack[a] = <<1>>
        /\ log_ctx[a].correlation_id = Some("outer")
        /\ tr_stack[b] = <<2>>
        /\ IsNone(SpanContextOf(2).parent_span_id)
        /\ SpanContextOf(2).trace_id # SpanContextOf(1).trace_id
        /\ IsNone(log_ctx[b].correlation_id)
        /\ amb_actor = b

\* no call of the tracer is in flight
TracerQuiet == \A t \in Threads : tr_pc[t] = "idle"

\* C18: the collect_traces summary is exact.  Taken while no call is in
\* flight, total_traces is the number of distinct trace ids of the spans
\* started, total_spans the number of spans started, completed_spans the
\* number of distinct spans that have been ended, which is never more than
\* total_spans.
C18_SummaryExact ==
    TracerQuiet =>
        /\ Tracer_collect_traces.total_traces
              = Cardinality({SpanContextOf(i).trace_id : i \in DOMAIN tr_spans})
        /\ Tracer_collect_traces.total_spans = Len(tr_spans)
        /\ Tracer_collect_traces.completed_spans
              = Cardinality({i \in DOMAIN tr_spans :
                               ~IsNone(tr_spans[i].end_time)})
        /\ Tracer_collect_traces.completed_spans
              <= Tracer_collect_traces.total_spans

\* ------------------------------------------------------------ header claims

\* C19: the header round trip.  A SpanContext with a non-empty trace id and
\* a non-empty span id, parent span id present or absent, that is serialized
\* with to_header and parsed with from_header comes back field for field.
C19_HeaderRoundTrip ==
    (/\ ~IsNone(hdr_context)
     /\ ~IsNone(hdr_parsed)
     /\ hdr_context[1].trace_id # <<>>
     /\ hdr_context[1].span_id # <<>>)
        => hdr_parsed[1] = Returned(hdr_context)

C21_EntryCarriesSpanIdentity ==
    [][Emits =>
         LET t == MainThread
             entry == log_entries'[Len(log_entries')]
         IN /\ (/\ tr_stack[t] # <<>>
                /\ IsNone(log_ctx[t].trace_id)
                /\ IsNone(log_ctx[t].span_id)) =>
                  LET top == tr_spans[tr_stack[t][Len(tr_stack[t])]]
                  IN /\ entry.trace_id = Some(top.context.trace_id)
                     /\ entry.span_id = Some(top.context.span_id)
            /\ \A s \in DOMAIN tr_spans :
                  ~IsNone(tr_spans[s].end_time) =>
                      entry.span_id # Some(tr_spans[s].context.span_id)]_vars

\* a _log call is made in this step
LogCall == lg_calls' = lg_calls + 1
LastCall == lg_last'[1]

\* the entries a step adds to the sinks and to the default console sink
NewlyWritten ==
    UNION {{lg_sinks'[h].entries[n] :
               n \in (Len(lg_sinks[h].entries) + 1)..Len(lg_sinks'[h].entries)} :
           h \in DOMAIN lg_sinks}
    \cup {lg_console'[n] : n \in (Len(lg_console) + 1)..Len(lg_console')}

\* C22: level filtering.  The effective minimum level of a call is the
\* logger's own level if one is set, otherwise the process-wide level at the
\* time of the call.  A call below it builds no entry and hands nothing to
\* any sink, the default console sink included; a call at or above it builds
\* exactly one entry.
C22_LevelFiltering ==
    [][LogCall =>
         LET c == LastCall
             effective == IF ~IsNone(lg_level) THEN lg_level[1]
                          ELSE lg_global_level
         IN /\ c.level < effective =>
                 /\ IsNone(c.entry)
                 /\ c.handed = <<>>
                 /\ UNCHANGED <<lg_sinks, lg_console, lg_stderr>>
            /\ c.level >= effective =>
                 /\ ~IsNone(c.entry)
                 /\ c.entry[1].level = c.level
                 /\ NewlyWritten = {c.entry[1]}]_vars

\* an entry was built and written by a sink, and then, with the logger's
\* level at WARN and the process-wide level at DEBUG, an INFO call built
\* nothing
C22_Witness ==
    /\ lg_calls = 2
    /\ ~IsNone(lg_last)
    /\ lg_last[1].level = INFO
    /\ lg_last[1].logger_level = Some(WARN)
    /\ lg_last[1].global_level = DEBUG
    /\ IsNone(lg_last[1].entry)
    /\ Len(lg_sinks) = 1
    /\ Len(lg_sinks[1].entries) = 1

\* C23: the extra map of an emitted entry is the union of the ambient extra
\* map and the extras of the call, the call's value standing for a key that
\* is in both; and building the entry leaves the ambient extra map as it was.
C23_ExtraMerge ==
    [][(LogCall /\ ~IsNone(LastCall.entry)) =>
         LET ambient == log_ctx[MainThread].extra
             supplied == LastCall.extra
             merged == LastCall.entry[1].extra
         IN /\ DOMAIN merged = DOMAIN ambient \cup DOMAIN supplied
            /\ \A k \in DOMAIN supplied : merged[k] = supplied[k]
            /\ \A k \in DOMAIN ambient \ DOMAIN supplied :
                  merged[k] = ambient[k]
            /\ log_ctx'[MainThread].extra = ambient]_vars

\* with user 1 ambient, a call that passed user 2 emitted user 2, and a later
\* call that passed only action emitted user 1 again
C23_Witness ==
    /\ log_ctx[MainThread].extra = [k \in {"user"} |-> 1]
    /\ Len(lg_console) = 2
    /\ lg_console[1].extra = [k \in {"user"} |-> 2]
    /\ ~IsNone(lg_last)
    /\ lg_last[1].extra = [k \in {"action"} |-> 2]
    /\ lg_last[1].context_extra = [k \in {"user"} |-> 1]
    /\ lg_console[2].extra = [k \in {"user", "action"} |->
                                 IF k = "user" THEN 1 ELSE 2]

\* how often sink h occurs in a sequence of sinks
Occurrences(handlers, h) ==
    Cardinality({n \in DOMAIN handlers : handlers[n] = h})

\* sink h wrote `entry` k more times in this step and nothing else
WroteTimes(h, entry, k) ==
    /\ Len(lg_sinks'[h].entries) = Len(lg_sinks[h].entries) + k
    /\ SubSeq(lg_sinks'[h].entries, 1, Len(lg_sinks[h].entries))
          = lg_sinks[h].entries
    /\ \A n \in (Len(lg_sinks[h].entries) + 1)..Len(lg_sinks'[h].entries) :
          lg_sinks'[h].entries[n] = entry

\* C24: sink fan-out.  A call at or above the effective level calls emit
\* with the one entry it built once for every handler attached to the logger,
\* in attachment order, and then once for every process-wide handler, in
\* attachment order; the default console sink gets the entry when, and only
\* when, both lists are empty.
C24_SinkFanOut ==
    [][(LogCall /\ ~IsNone(LastCall.entry)) =>
         LET entry == LastCall.entry[1]
             handed == LastCall.handed
             local == Len(lg_handlers)
         IN IF lg_handlers = <<>> /\ lg_global_handlers = <<>>
            THEN /\ handed = <<0>>
                 /\ lg_console' = Append(lg_console, entry)
                 /\ lg_sinks' = lg_sinks
            ELSE /\ lg_console' = lg_console
                 /\ Len(handed) = local + Len(lg_global_handlers)
                 /\ \A n \in DOMAIN lg_handlers : handed[n] = lg_handlers[n]
                 /\ \A n \in DOMAIN lg_global_handlers :
                       handed[local + n] = lg_global_handlers[n]
                 /\ \A h \in DOMAIN lg_sinks :
                       WroteTimes(h, entry,
                          IF entry.level < lg_sinks[h].level THEN 0
                          ELSE Occurrences(lg_handlers, h)
                                 + Occurrences(lg_global_handlers, h))]_vars

\* with sink 2 attached process-wide and then sink 1 attached to the logger,
\* a call handed its entry to sink 1 first and to sink 2 second, and both
\* wrote it
C24_Witness ==
    /\ lg_handlers = <<1>>
    /\ lg_global_handlers = <<2>>
    /\ ~IsNone(lg_last)
    /\ ~IsNone(lg_last[1].entry)
    /\ lg_last[1].handed = <<1, 2>>
    /\ lg_sinks[1].entries = <<lg_last[1].entry[1]>>
    /\ lg_sinks[2].entries = <<lg_last[1].entry[1]>>
    /\ lg_console = <<>>

\* the handlers a call goes through, as attached when the call is made
AllAttached == lg_handlers \o lg_global_handlers

\* the "Error in log handler" lines a step adds to stderr
NewOnStderr == SubSeq(lg_stderr', Len(lg_stderr) + 1, Len(lg_stderr'))

FirstUncaught ==
    LET uncaught == {n \in DOMAIN AllAttached :
                        lg_sinks[AllAttached[n]].fault = "BaseException"}
    IN IF uncaught = {} THEN Len(AllAttached) + 1
       ELSE CHOOSE n \in uncaught : \A m \in uncaught : n <= m

MemoryQuiet == \A t \in Threads : mem_pc[t] = "idle"

\* C26: the in-memory sink is a bounded ring buffer.  Whatever max_entries
\* (0 or more) it was constructed with and in whatever order the threads'
\* emits were accepted, once the emits have returned the sink holds no more
\* than max_entries entries, and these are the most recent min(k,
\* max_entries) of the k accepted entries, in the order they were accepted.
C26_BoundedRingBuffer ==
    MemoryQuiet =>
        LET k == Len(mem_accepted)
            kept == IF k < mem_max_entries THEN k ELSE mem_max_entries
        IN /\ Len(MemoryHandler_get_entries) <= mem_max_entries
           /\ MemoryHandler_get_entries = SubSeq(mem_accepted, k - kept + 1, k)

\* ---------------------------------------------------------- histogram claims

\* the last read was get_percentile on a histogram that had observations
PercentileRead ==
    /\ ~IsNone(hist_query)
    /\ hist_query[1].op = "get_percentile"
    /\ hist_values # <<>>

\* observations below v, and observations not above v
CountBelow(v) == Cardinality({n \in DOMAIN hist_values : hist_values[n] < v})
CountUpTo(v) == Cardinality({n \in DOMAIN hist_values : hist_values[n] <= v})

\* C27: nearest-rank percentile.  For N >= 1 observations and p in 0..100,
\* get_percentile(p) is the element at index floor(N*p/100), clamped to
\* [0, N-1], of the observations in ascending order: an observed value with
\* no more than that many observations below it and more than that many
\* observations not above it.
C27_NearestRankPercentile ==
    PercentileRead =>
        LET N == Len(hist_values)
            p == hist_query[1].arg
            r == hist_query[1].result
            floor == CHOOSE k \in 0..N : k * 100 <= N * p /\ N * p < (k + 1) * 100
            index == IF floor > N - 1 THEN N - 1 ELSE floor
        IN /\ \E n \in DOMAIN hist_values : hist_values[n] = r
           /\ CountBelow(r) <= index
           /\ index < CountUpTo(r)

\* of the observations 3, 0, 2 (in that order) the 50th percentile was read:
\* index 1 of 0, 2, 3, which is 2
C27_Witness ==
    /\ hist_values = <<3, 0, 2>>
    /\ hist_query = Some([op |-> "get_percentile", arg |-> 50, result |-> 2])

\* C28: for N >= 1 observations get_percentile does not decrease as p goes
\* from 0 to 100 (no smaller p gives a larger result than the p that was
\* read), and get_percentile(100) is the largest observation.
C28_PercentileMonotone ==
    PercentileRead =>
        LET p == hist_query[1].arg
            r == hist_query[1].result
        IN /\ \A q \in Percentiles :
                 q <= p => Histogram_get_percentile(hist_values, q) <= r
           /\ p = 100 =>
                 /\ \A n \in DOMAIN hist_values : hist_values[n] <= r
                 /\ \E n \in DOMAIN hist_values : hist_values[n] = r

\* of the observations 2, 3, 0 the 100th percentile was read: 3
C28_Witness ==
    /\ hist_values = <<2, 3, 0>>
    /\ hist_query = Some([op |-> "get_percentile", arg |-> 100, result |-> 3])

\* the last read was get_bucket_counts
BucketsRead == ~IsNone(hist_query) /\ hist_query[1].op = "get_bucket_counts"

\* C29: bucket counts are cumulative.  For every observation list and every
\* boundary b of the configured list, the exported count for b is the number
\* of observations <= b; the +infinity bucket is the total observation
\* count; so the counts do not decrease along ascending boundaries and never
\* exceed the total.
C29_BucketCountsCumulative ==
    BucketsRead =>
        LET counts == hist_query[1].result
            boundaries == {hist_buckets[n] : n \in DOMAIN hist_buckets}
        IN /\ DOMAIN counts.le = boundaries
           /\ \A b \in boundaries : counts.le[b] = CountUpTo(b)
           /\ counts.le_inf = Len(hist_values)
           /\ \A b \in boundaries : counts.le[b] <= counts.le_inf
           /\ \A b, c \in boundaries : b <= c => counts.le[b] <= counts.le[c]

\* no observe call is in flight
HistogramQuiet == \A t \in Threads : hist_pc[t] = "idle"

\* C30: with zero observations the mean, the minimum and the maximum are
\* reported as None, by get_mean and by the export, the count is 0, the sum
\* is 0 and no read raises; with N >= 1 observations, once the observe calls
\* have returned, the count is the number of observe calls and the sum is
\* the sum of the values observed.
C30_EmptyAndTotals ==
    (~IsNone(hist_query) /\ HistogramQuiet) =>
        LET op == hist_query[1].op
            result == hist_query[1].result
        IN /\ ~result.error
           /\ op = "get_count" => result.context = Len(hist_calls)
           /\ op = "get_sum" => result.context = SeqSum(hist_calls)
           /\ op = "to_dict" =>
                 /\ result.context.count = Len(hist_calls)
                 /\ result.context.sum = SeqSum(hist_calls)
           /\ (op = "to_dict" /\ hist_calls = <<>>) =>
                 /\ IsNone(result.context.mean)
                 /\ IsNone(result.context.min)
                 /\ IsNone(result.context.max)
           /\ (op = "get_mean" /\ hist_calls = <<>>) =>
                 IsNone(result.context)

\* the start/stop protocol applied to the calls of `trace` in order: whether
\* a start is in flight, the observations recorded, and whether every call
\* did what the protocol asks of it
RECURSIVE TimerProtocol(_)
TimerProtocol(trace) ==
    IF trace = <<>>
    THEN [in_flight |-> FALSE, count |-> 0, kept |-> TRUE]
    ELSE LET before == TimerProtocol(SubSeq(trace, 1, Len(trace) - 1))
             call == trace[Len(trace)]
         IN IF call.op = "start"
            THEN [in_flight |-> TRUE, count |-> before.count,
                  kept |-> before.kept /\ call.outcome = "ok"
                           /\ ~IsNone(call.left)]
            ELSE IF before.in_flight
            THEN [in_flight |-> FALSE, count |-> before.count + 1,
                  kept |-> /\ before.kept
                           /\ call.outcome = "ok"
                           /\ call.after = call.before + 1
                           /\ IsNone(call.left)]
            ELSE [in_flight |-> FALSE, count |-> before.count,
                  kept |-> /\ before.kept
                           /\ call.outcome = "RuntimeError"
                           /\ call.after = call.before
                           /\ IsNone(call.left)]

TimerIdle == \A t \in Threads : tm_pc[t] = "idle"

\* C31: a stop() with no start in flight raises, records nothing and leaves
\* the timer as it was; a stop() after a start() records exactly one
\* observation and clears the start; a start() after a start() overwrites
\* it, so that start, start, stop records one observation and one more stop
\* raises.
C31_StartStopProtocol ==
    TimerIdle =>
        LET expected == TimerProtocol(tm_trace)
        IN /\ expected.kept
           /\ Len(hist_values) = expected.count
           /\ IsNone(tm_start_time) = ~expected.in_flight

\* C31 witness: start, start, stop, stop was called: one observation, the
\* last stop raised
C31_Witness ==
    /\ Len(tm_trace) = 4
    /\ [i \in 1..4 |-> tm_trace[i].op] = <<"start", "start", "stop", "stop">>
    /\ \A i \in 1..4 : ~tm_trace[i].scoped
    /\ tm_trace[3].outcome = "ok"
    /\ tm_trace[4].outcome = "RuntimeError"
    /\ Len(hist_values) = 1
    /\ IsNone(tm_start_time)

\* the time() blocks that were left, in the order they were left
TimeBlocks == {i \in DOMAIN tm_trace :
                  tm_trace[i].op = "stop" /\ tm_trace[i].scoped}

\* the block recorded one observation, left no start in flight and let its
\* own outcome through
BlockTimed(block) ==
    /\ block.outcome = "ok"
    /\ block.after = block.before + 1
    /\ IsNone(block.left)
    /\ block.reached = block.fault

\* C32 as stated: every time() block that was left, normally or by a fault,
\* recorded exactly one observation, left no start in flight and let the
\* block's own fault, if any, reach the caller unchanged.
C32_ScopedTiming == \A i \in TimeBlocks : BlockTimed(tm_trace[i])

\* C32 amended: a time() block during which nothing else started or stopped
\* the timer records exactly one observation, leaves no start in flight and
\* lets its own fault through; a block that ends with no start in flight
\* records nothing and raises RuntimeError in place of its own outcome.
C32_ScopedTimingUndisturbed ==
    \A i \in TimeBlocks :
        LET block == tm_trace[i]
        IN /\ block.clean => BlockTimed(block)
           /\ block.outcome # "ok" =>
                 /\ ~block.clean
                 /\ block.outcome = "RuntimeError"
                 /\ block.after = block.before
                 /\ block.reached = "RuntimeError"

\* C32 witness: an undisturbed block was left by a fault, which reached the
\* caller after one observation was recorded
C32_Witness ==
    \E i \in TimeBlocks :
        /\ tm_trace[i].clean
        /\ tm_trace[i].fault = "Exception"
        /\ tm_trace[i].reached = "Exception"
        /\ tm_trace[i].after = tm_trace[i].before + 1

\* the stop() calls, plain or of a time() block, whose thread had called
\* start() as its call before
PairedStops ==
    {i \in DOMAIN tm_trace :
        /\ tm_trace[i].op = "stop"
        /\ \E j \in 1..(i - 1) :
              /\ tm_trace[j].thread = tm_trace[i].thread
              /\ tm_trace[j].op = "start"
              /\ \A k \in (j + 1)..(i - 1) :
                    tm_trace[k].thread # tm_trace[i].thread}

\* C34: when threads share one Timer and each calls start() and then
\* stop(), or runs a time() block, no stop() raises for a thread that did
\* call start(), and once the calls have returned the timer holds exactly
\* one observation for each completed start/stop pair.
C34_TimerSerialized ==
    /\ \A i \in PairedStops : tm_trace[i].outcome = "ok"
    /\ TimerIdle => Len(hist_values) = Cardinality(PairedStops)

\* the orders in which the calls of `begun` (per thread, in program order)
\* can be put one after the other
RECURSIVE Interleavings(_)
Interleavings(begun) ==
    IF \A t \in DOMAIN begun : begun[t] = <<>>
    THEN {<<>>}
    ELSE UNION {{<<Head(begun[t])>> \o rest :
                    rest \in Interleavings([begun EXCEPT ![t] = Tail(@)])} :
                t \in {u \in DOMAIN begun : begun[u] # <<>>}}

\* the value of a gauge after the calls of `order`, one after the other
RECURSIVE GaugeAfter(_)
GaugeAfter(order) ==
    IF order = <<>> THEN 0
    ELSE LET call == order[Len(order)]
             value == GaugeAfter(SubSeq(order, 1, Len(order) - 1))
         IN CASE call.op = "set" -> call.arg
              [] call.op = "inc" -> value + call.arg
              [] call.op = "dec" -> value - call.arg

\* how often v is among the elements of seq
CountOf(seq, v) == Cardinality({i \in DOMAIN seq : seq[i] = v})

GaugeQuiet == \A t \in Threads : gauge_pc[t] = "idle"

\* C33: once the set / inc / dec calls of the threads on one Gauge have
\* returned, get() is the result of the calls in some order that keeps each
\* thread's program order; once the observe calls on one Histogram have
\* returned, the count is the number of observe calls, values and
\* timestamps have the same length and every observed value is held as
\* often as it was observed.
C33_MutatorsLinearizable ==
    /\ GaugeQuiet =>
          \E order \in Interleavings(gauge_begun) :
              Gauge_get = GaugeAfter(order)
    /\ HistogramQuiet =>
          /\ Histogram_get_count(hist_values) = Len(hist_calls)
          /\ Len(hist_timestamps) = Len(hist_values)
          /\ \A v \in ObservedValues :
                CountOf(hist_values, v) = CountOf(hist_calls, v)

\* C33 witness: two threads have made calls on the gauge, an inc among
\* them, and all calls have returned
C33_Witness ==
    /\ GaugeQuiet
    /\ \A t \in Threads : gauge_begun[t] # <<>>
    /\ \E t \in Threads : \E i \in DOMAIN gauge_begun[t] :
          gauge_begun[t][i].op = "inc"
    /\ gauge_value = 3

\* C35: no thread holds two locks of the core at once, and under fair
\* scheduling every operation a thread has begun returns, whatever the
\* other threads do.
C35_NoDeadlockCompletion ==
    /\ [](\A t \in Threads : Cardinality(Core_held(t)) <= 1)
    /\ \A t \in Threads : Core_busy(t) ~> ~Core_busy(t)

\* C35 witness: one thread holds a lock while another waits for that lock
C35_Witness ==
    \E t, u \in Threads :
        /\ t # u
        /\ "histogram" \in Core_held(t)
        /\ hist_pc[u] = "lock"

\* the span that was current when inject_context was called
InjectedFrom == tr_spans[prop_inject[1].active[1]].context

\* the other ids in the tracer's tables when span n is left out
OtherIds(n) ==
    UNION {{tr_spans[i].context.trace_id, tr_spans[i].context.span_id} :
              i \in DOMAIN tr_spans \ {n}}

\* C36: when inject_context is called with a current span S, the header it
\* adds is extracted as a context with S's trace id and span id, and the
\* span start_span_from_context makes from it has S's trace id, S's span id
\* as its parent span id and a span id no other span has, is registered in
\* S's trace bucket and is on top of the receiving thread's stack when the
\* call returns; when inject_context is called with no current span it adds
\* no header and extract_context returns no context.
C36_CrossBoundary ==
    /\ [](~IsNone(prop_inject) =>
           IF IsNone(prop_inject[1].active)
           THEN /\ IsNone(hdr_header)
                /\ ~IsNone(hdr_extracted) =>
                      hdr_extracted[1] = Returned(NoneVal)
           ELSE /\ ~IsNone(hdr_header)
                /\ ~IsNone(hdr_extracted) =>
                      /\ ~hdr_extracted[1].error
                      /\ ~IsNone(hdr_extracted[1].context)
                      /\ hdr_extracted[1].context[1].trace_id
                            = Tracer_id_hex(InjectedFrom.trace_id)
                      /\ hdr_extracted[1].context[1].span_id
                            = Tracer_id_hex(InjectedFrom.span_id)
                /\ ~IsNone(prop_span) =>
                      LET new == tr_spans[prop_span[1]].context
                      IN /\ new.trace_id = InjectedFrom.trace_id
                         /\ new.parent_span_id = Some(InjectedFrom.span_id)
                         /\ new.span_id \notin OtherIds(prop_span[1])
                         /\ prop_span[1] \in Tracer_handed_out =>
                               InBucket(prop_span[1], InjectedFrom.trace_id))
    /\ [][\A t \in Threads :
             (/\ tr_pc[t] = "start_push"
              /\ Some(tr_frame[t].span) = prop_span
              /\ tr_pc'[t] = "idle")
             => tr_stack'[t][Len(tr_stack'[t])] = prop_span[1]]_vars

\* C36 witness: a thread other than the one that injected has started a span
\* from the extracted context, below a span of its own, and the call has
\* returned
C36_Witness ==
    /\ ~IsNone(prop_inject)
    /\ ~IsNone(prop_span)
    /\ prop_span[1] \in Tracer_handed_out
    /\ tr_calls[prop_span[1]].thread # prop_inject[1].thread
    /\ tr_calls[prop_span[1]].stack # <<>>

\* a thread calls start_span in this step
StartCall(t) == tr_pc[t] = "idle" /\ tr_pc'[t] = "start_lock"

\* the spans on a stack; the stack without its top
OnStack(stack) == {stack[n] : n \in DOMAIN stack}
BelowTop(stack) == SubSeq(stack, 1, Len(stack) - 1)

\* a start_span without explicit parent on a stack whose top has been ended
\* makes the ended span the parent
ParentMayBeEnded(t) ==
    LET stack == tr_stack[t]
    IN (/\ StartCall(t)
        /\ stack # <<>>
        /\ IsNone(tr_calls'[Len(tr_spans')].explicit))
          => (~IsNone(tr_spans[stack[Len(stack)]].end_time)
                => tr_spans'[Len(tr_spans')].context.parent_span_id
                      = Some(tr_spans[stack[Len(stack)]].context.span_id))

\* C37 as stated: a call of end on a span that is not the top of the
\* caller's stack removes the top of the stack, a span that is still
\* recording, and leaves the ended span on the stack; a later start_span
\* without explicit parent takes the ended span on top of the stack as its
\* parent.
C37_OutOfOrderEnd ==
    [][\A t \in Threads :
          LET stack == tr_stack[t]
              s == EndedSpan(t)
          IN /\ (EndCall(t) /\ Some(s) # TracerContext_get_current_span(t))
                  => /\ stack # <<>>
                     /\ tr_stack'[t] = BelowTop(stack)
                     /\ IsNone(tr_spans[stack[Len(stack)]].end_time)
                     /\ s \in OnStack(tr_stack'[t])
             /\ ParentMayBeEnded(t)]_vars

\* C37 amended: a call of end on a span that is on the caller's stack below
\* its top removes the top of the stack, a span the call does not end, and
\* leaves the ended span on the stack; a later start_span without explicit
\* parent takes the ended span on top of the stack as its parent.
C37_OutOfOrderEndOnStack ==
    [][\A t \in Threads :
          LET stack == tr_stack[t]
              s == EndedSpan(t)
          IN /\ (/\ EndCall(t)
                 /\ s \in OnStack(stack)
                 /\ Some(s) # TracerContext_get_current_span(t))
                  => /\ tr_stack'[t] = BelowTop(stack)
                     /\ tr_spans'[stack[Len(stack)]].end_time
                           = tr_spans[stack[Len(stack)]].end_time
                     /\ s \in OnStack(tr_stack'[t])
             /\ ParentMayBeEnded(t)]_vars

\* C37 witness: span 1 was ended while span 2 was on top of it: span 2,
\* still recording, is off the stack, span 1 is on it, and span 3, started
\* after that, has span 1 as its parent
C37_Witness ==
    /\ Len(tr_spans) = 3
    /\ tr_stack[MainThread] = <<1, 3>>
    /\ ~IsNone(tr_spans[1].end_time)
    /\ IsNone(tr_spans[2].end_time)
    /\ tr_spans[3].context.parent_span_id = Some(tr_spans[1].context.span_id)
    /\ tr_pc[MainThread] = "idle"

\* C38: end(span, t) with a supplied timestamp t sets the span's end time to
\* exactly t, for every t (0 included); the span is then no longer recording
\* and its snapshot has end_time and duration_ms.  The current time is used
\* only when no timestamp is supplied.
C38_ExplicitEndTime ==
    [][\A t \in Threads : \A s \in DOMAIN tr_spans :
          /\ \A end_time \in EndTimes :
                Span_end_begin(t, s, Some(end_time))
                    => /\ tr_spans'[s].end_time = Some(end_time)
                       /\ ~Span_is_recording(tr_spans'[s])
                       /\ Span_to_dict_has_end(tr_spans'[s])
          /\ Span_end_begin(t, s, NoneVal)
                => /\ tr_spans'[s].end_time \in {Some(now) : now \in Clock}
                   /\ ~Span_is_recording(tr_spans'[s])
                   /\ Span_to_dict_has_end(tr_spans'[s])]_vars

\* C39: the singletons are initialised once.  Every MetricsCollector() and
\* every Tracer() construction returns the same object, the body of __init__
\* runs at most once per class, and no step of a construction removes a registered metric from the collector's tables or a
\* recorded span from the tracer's trace table.
C39_SingletonInitialisedOnce ==
    /\ [](\A c \in Classes :
             /\ sgl_inits[c] <= 1
             /\ \A t \in Threads, u \in Threads :
                   (sgl_handle[t][c] # 0 /\ sgl_handle[u][c] # 0)
                       => sgl_handle[t][c] = sgl_handle[u][c])
    /\ [][/\ \A k \in Kinds, n \in Names :
                reg_table[k][n] # 0 => reg_table'[k][n] = reg_table[k][n]
          /\ \A tid \in DOMAIN tr_traces :
                /\ tid \in DOMAIN tr_traces'
                /\ \A s \in OnStack(tr_traces[tid]) :
                      s \in OnStack(tr_traces'[tid])]_vars

\* C40: a histogram export is internally consistent even when it is taken
\* while observe calls run.  In every export to_dict has finished, count is
\* the number of (value, timestamp) pairs of the exported values list, sum is
\* the sum of those values and the le_inf bucket equals count.
C40_ExportConsistent ==
    exp_pc = "done"
        => /\ exp_out.count = Len(exp_out.values)
           /\ exp_out.sum = SeqSum([n \in DOMAIN exp_out.values |->
                                       exp_out.values[n][1]])
           /\ exp_out.le_inf = exp_out.count

====
